---------------------------- MODULE Spec2Model ----------------------------
(***************************************************************************)
(* Cross-frame slide-URL request protocol of the Google Slides URL copier  *)
(* (the all_frames content script).  The top frame answers                 *)
(* REQUEST_SLIDE_URL messages with a SLIDE_URL message built from its own  *)
(* location.href; every other frame keeps a table of pending requests,     *)
(* keyed by a random requestId, and settles each request on the first of   *)
(* its response and its 3-second timer.                                    *)
(*                                                                         *)
(* buildSlideUrl is modelled in its four versions: that of the top-frame   *)
(* listener, that of content.js, that with modes and export formats, and   *)
(* the edit-only one; the last two use getCurrentSlideId.                  *)
(*                                                                         *)
(* Also modelled: the click handler of the share dialog's button (request, *)
(* clipboard write, status line), the injection of the menu option into    *)
(* the quick-actions menu with its scans, fallback check and polling       *)
(* loops, the monitoring of slide changes, and the request protocol        *)
(* without requestId (requestSlideUrlFromMainFrame and                     *)
(* setupMainFrameMessageHandler).                                          *)
(*                                                                         *)
(* The overlay button of the share dialog (analyzeDialogButtons,           *)
(* injectTestButton, setupDialogCloseDetection) and the copy controls of   *)
(* the three page versions (the floating button of content.js, the button  *)
(* of content_old.js, the six options of the quick-actions menu) have      *)
(* their own specifications.                                               *)
(*                                                                         *)
(* JavaScript strings that are matched, sliced or concatenated are         *)
(* sequences of one-character strings, so that a regular expression is     *)
(* run over the characters of the address.                                 *)
(***************************************************************************)
EXTENDS Integers, Sequences, FiniteSets, Bags, TLC

VARIABLES href, inbox, pending, timers, calls, outcome, pc, last, built,
          click, clipboard, status, statusTimers,
          host, state, polls, tasks, qaClicks, fallbackChecks,
          reqs, overlay, copy

\* reqs: the calls of requestSlideUrlFromMainFrame, in the order made
\* overlay: the overlay buttons of the document and what is registered for
\* them; copy: the copy controls of a page, their clicks and what they show

\* the share dialog's copy button: the click handlers, the clipboard, the
\* status line and the timers that clear it
dialogUi == <<click, clipboard, status, statusTimers>>

\* the page of the top frame: the host's elements, the script's state
\* object, its polling loops, its other timers that are set, the clicks on
\* the quick-actions button and the fallback checks run
pageUi == <<host, state, polls, tasks, qaClicks, fallbackChecks>>

\* what the request protocol does not touch
elsewhere == <<clipboard, status, statusTimers, pageUi, reqs, overlay, copy>>

\* what the scripts of the page's own controls do not touch
apart == <<reqs, dialogUi, built, href, inbox, pending, timers, calls, outcome, pc>>

vars == <<href, inbox, pending, timers, calls, outcome, pc, last, built, dialogUi, pageUi, reqs,
          overlay, copy>>

(***************************************************************************)
(* Bounds of the model.                                                    *)
(***************************************************************************)
\* requestUrl calls made in one run
MaxRequests == 2
\* messages in flight, all queues together, below which another script
\* posts one more
MaxQueue == 1
\* clicks on the quick-actions button
MaxClicks == 2
\* polling loops started by clicks on Share
MaxPolls == 2
\* timers of handlePotentialSlideChange that are set at one time
MaxSlideChanges == 2
\* runs of the callback of a polling loop that has no counter of its own
MaxPollRuns == 22
\* overlay buttons created
MaxInjections == 3
\* clicks on a copy control
MaxCopies == 2

(***************************************************************************)
(* Frames.  The script runs in every frame; frame 1 is a child of the top  *)
(* frame and frame 2 a child of frame 1.  The frames are of one origin and *)
(* share one event loop: a handler runs to its end before the next one     *)
(* starts.                                                                 *)
(***************************************************************************)
Top == 0

\* the frames that run the iframe code when the top-frame branch does not
\* return
FramesPastTopBranch == {0, 1, 2}

Iframes == {1, 2}

Frames == {Top} \cup Iframes

NoFrame == -1

\* window.parent of a frame
Parent(f) == f - 1

\* window.top === window
IsTop(f) == f = Top

\* the frames whose parent is the top frame
Children == {f \in Iframes : IsTop(Parent(f))}

\* the origin a MessageEvent sent by a frame carries
FrameOrigin(f) == "https://docs.google.com"

(***************************************************************************)
(* Characters and strings.                                                 *)
(***************************************************************************)
Digits == {"0", "1", "2", "3", "4", "5", "6", "7", "8", "9"}

\* the value of a field a message does not carry
Undefined == <<"undefined">>

\* a JavaScript number: a marker followed by its decimal digits
Num(digits) == <<"number">> \o digits

IsNum(x) == x # <<>> /\ Head(x) = "number"

\* `${x}` of a string or a number
ToJsString(x) == IF IsNum(x) THEN Tail(x) ELSE x

\* !x: undefined, the empty string and the number 0 are falsy
Falsy(x) == x = Undefined \/ x = <<>> \/ x = Num(<<"0">>)

S_presentation_d == <<"/", "p", "r", "e", "s", "e", "n", "t", "a", "t", "i", "o", "n", "/", "d", "/">>

S_slide_eq == <<"#", "s", "l", "i", "d", "e", "=">>

S_docs == <<"h", "t", "t", "p", "s", ":", "/", "/", "d", "o", "c", "s", ".", "g", "o", "o", "g", "l", "e", ".", "c", "o", "m">>

S_edit_slide == <<"/", "e", "d", "i", "t", "#", "s", "l", "i", "d", "e", "=">>

S_preview_slide == <<"/", "p", "r", "e", "v", "i", "e", "w", "?", "r", "m", "=", "m", "i", "n", "i", "m", "a", "l", "&", "s", "l", "i", "d", "e", "=">>

\* the literal lit occurs in s at position i
MatchAt(s, i, lit) ==
  /\ i + Len(lit) - 1 <= Len(s)
  /\ \A k \in 1..Len(lit) : s[i + k - 1] = lit[k]

\* a character of the class \d, [^&] or [^/]
InClass(c, cls) ==
  IF cls = "digit" THEN c \in Digits
  ELSE IF cls = "notamp" THEN c # "&"
  ELSE c # "/"

\* String.prototype.match of lit(cls+): the capture group of the leftmost
\* match, greedy, or <<>> paired with FALSE when nothing matches
MatchCapture(s, lit, cls) ==
  LET starts == {i \in 1..Len(s) :
                   /\ MatchAt(s, i, lit)
                   /\ i + Len(lit) <= Len(s)
                   /\ InClass(s[i + Len(lit)], cls)}
  IN IF starts = {}
     THEN [found |-> FALSE, group |-> <<>>]
     ELSE LET i == CHOOSE x \in starts : \A y \in starts : x <= y
              from == i + Len(lit)
              to == CHOOSE k \in from..Len(s) :
                      /\ \A t \in from..k : InClass(s[t], cls)
                      /\ (k = Len(s) \/ ~InClass(s[k + 1], cls))
          IN [found |-> TRUE, group |-> SubSeq(s, from, to)]

(***************************************************************************)
(* MODES and buildSlideUrl of the top frame.                               *)
(***************************************************************************)
MODES_EDIT == "Edit"

MODES_PREVIEW == "Preview"

NoMode == "undefined"

\* a match of /d/ wherever it is in the address
IdMatchAnyD(h) == MatchCapture(h, <<"/", "d", "/">>, "notslash")

\* a match whose group runs over the slashes
IdMatchToAmp(h) == MatchCapture(h, S_presentation_d, "notamp")

\* href.match(/\/presentation\/d\/([^/]+)/)
IdMatch(h) == MatchCapture(h, S_presentation_d, "notslash")

\* slideNumber after `if (!slideNumber) { ... }`, as it is interpolated
SlideNumberOr(h, slideNumber) ==
  LET m == MatchCapture(h, S_slide_eq, "digit")
  IN IF Falsy(slideNumber)
     THEN (IF m.found THEN m.group ELSE <<"0">>)
     ELSE ToJsString(slideNumber)

\* buildSlideUrl({ mode = MODES.EDIT, slideNumber }) with location.href = h
BuildSlideUrl(h, mode, slideNumber) ==
  LET m0 == IF mode = NoMode THEN MODES_EDIT ELSE mode
      idMatch == IdMatch(h)
      deckId == idMatch.group
      slide == SlideNumberOr(h, slideNumber)
  IN IF ~idMatch.found
     THEN h
     ELSE IF m0 = MODES_PREVIEW
          THEN S_docs \o S_presentation_d \o deckId \o S_preview_slide \o slide
          ELSE S_docs \o S_presentation_d \o deckId \o S_edit_slide \o slide

\* addresses the top frame can show
Href_edit3 == S_docs \o S_presentation_d \o <<"A", "1", "/", "e", "d", "i", "t">> \o S_slide_eq \o <<"3">>

Href_editP7 == S_docs \o S_presentation_d \o <<"A", "1", "/", "e", "d", "i", "t">> \o S_slide_eq \o <<"i", "d", ".", "p", "7">>

\* an address that is not of a presentation
Href_other == S_docs \o <<"/", "d", "/", "A", "1", "/">> \o S_slide_eq \o <<"4">>

Hrefs == {Href_edit3, Href_editP7, Href_other}

(***************************************************************************)
(* buildSlideUrl of the later versions of the script, which run in the top *)
(* frame and read the slide from the address (content.js) or from the      *)
(* address and the page (getCurrentSlideId).                               *)
(***************************************************************************)
S_slide_id == S_slide_eq \o <<"i", "d">>

\* an edit template that lacks the id. prefix
S_edit_slide_bare == <<"/", "e", "d", "i", "t", "#", "s", "l", "i", "d", "e", "=">>

S_edit_slide_id == S_edit_slide \o <<"i", "d", ".">>

S_preview_slide_id == S_preview_slide \o <<"i", "d", ".">>

S_export == <<"/", "e", "x", "p", "o", "r", "t", "?", "f", "o", "r", "m", "a", "t", "=">>

S_amp_slide == <<"&", "s", "l", "i", "d", "e", "=">>

S_demo_slide_id == <<"/", "e", "d", "i", "t", "?", "r", "m", "=", "d", "e", "m", "o", "#", "s", "l", "i", "d", "e", "=", "i", "d", ".">>

S_present_slide_id == <<"/", "p", "r", "e", "s", "e", "n", "t", "#", "s", "l", "i", "d", "e", "=", "i", "d", ".">>

S_mobile_slide_id == <<"/", "m", "o", "b", "i", "l", "e", "p", "r", "e", "s", "e", "n", "t", "#", "s", "l", "i", "d", "e", "=", "i", "d", ".">>

WordChars ==
  Digits \cup {"_", "-"} \cup
  {"a", "b", "c", "d", "e", "f", "g", "h", "i", "j", "k", "l", "m", "n", "o", "p", "q", "r", "s", "t", "u", "v", "w", "x", "y", "z"} \cup
  {"A", "B", "C", "D", "E", "F", "G", "H", "I", "J", "K", "L", "M", "N", "O", "P", "Q", "R", "S", "T", "U", "V", "W", "X", "Y", "Z"}

HexDigits == Digits \cup {"a", "b", "c", "d", "e", "f", "A", "B", "C", "D", "E", "F"}

\* a match whose group starts at the dot: /#slide=id(\.?[^&]+)/
MatchSlideIdWithDot(s) ==
  LET lit == S_slide_id
      From(i) == LET a == i + Len(lit)
                 IN IF a <= Len(s) /\ s[a] # "&" THEN a ELSE 0
      starts == {i \in 1..Len(s) : MatchAt(s, i, lit) /\ From(i) # 0}
  IN IF starts = {}
     THEN [found |-> FALSE, group |-> <<>>]
     ELSE LET i == CHOOSE x \in starts : \A y \in starts : x <= y
              from == From(i)
              to == CHOOSE k \in from..Len(s) :
                      /\ \A t \in from..k : InClass(s[t], "notamp")
                      /\ (k = Len(s) \/ ~InClass(s[k + 1], "notamp"))
          IN [found |-> TRUE, group |-> SubSeq(s, from, to)]

\* href.match(/#slide=id\.?([^&]+)/): the dot is taken when a character of
\* the group follows it, and is the first character of the group otherwise
MatchSlideId(s) ==
  LET lit == S_slide_id
      From(i) == LET a == i + Len(lit)
                 IN IF a + 1 <= Len(s) /\ s[a] = "." /\ s[a + 1] # "&" THEN a + 1
                    ELSE IF a <= Len(s) /\ s[a] # "&" THEN a
                    ELSE 0
      starts == {i \in 1..Len(s) : MatchAt(s, i, lit) /\ From(i) # 0}
  IN IF starts = {}
     THEN [found |-> FALSE, group |-> <<>>]
     ELSE LET i == CHOOSE x \in starts : \A y \in starts : x <= y
              from == From(i)
              to == CHOOSE k \in from..Len(s) :
                      /\ \A t \in from..k : InClass(s[t], "notamp")
                      /\ (k = Len(s) \/ ~InClass(s[k + 1], "notamp"))
          IN [found |-> TRUE, group |-> SubSeq(s, from, to)]

\* slideNumber.match(/^g[a-zA-Z0-9_-]+$/)
IsGeneratedId(s) ==
  /\ Len(s) >= 2
  /\ s[1] = "g"
  /\ \A k \in 2..Len(s) : s[k] \in WordChars

\* isNaN(parseInt(s)): after blanks and a sign, no digit (after 0x, no
\* hexadecimal digit)
ParseIntIsNaN(s) ==
  LET a == 1 + Cardinality({k \in 1..Len(s) : \A j \in 1..k : s[j] = " "})
      b == IF a <= Len(s) /\ s[a] \in {"+", "-"} THEN a + 1 ELSE a
  IN IF b + 1 <= Len(s) /\ s[b] = "0" /\ s[b + 1] \in {"x", "X"}
     THEN ~(b + 2 <= Len(s) /\ s[b + 2] \in HexDigits)
     ELSE ~(b <= Len(s) /\ s[b] \in Digits)

\* content.js: the slide read from the address
SlideNumber_content(h) ==
  LET slideMatch == MatchSlideId(h)
      altMatch == MatchCapture(h, S_slide_eq, "digit")
  IN IF slideMatch.found THEN slideMatch.group
     ELSE IF altMatch.found THEN altMatch.group
     ELSE <<"0">>

\* content.js: buildSlideUrl({ mode = 'EDIT' }) with location.href = h
BuildSlideUrl_content(h, mode) ==
  LET idMatch == IdMatch(h)
      presentationId == idMatch.group
      slideNumber == SlideNumber_content(h)
      base == S_docs \o S_presentation_d \o presentationId
  IN IF ~idMatch.found THEN h
     ELSE IF mode = "PREVIEW"
          THEN IF IsGeneratedId(slideNumber) THEN base \o S_preview_slide_id \o slideNumber
               ELSE IF ~ParseIntIsNaN(slideNumber) THEN base \o S_preview_slide \o slideNumber
               ELSE base \o S_preview_slide_id \o slideNumber
          ELSE base \o S_edit_slide_id \o slideNumber

\* document.querySelector('[aria-selected="true"]'): no element, or an
\* element with its data-slide-id and id attributes (<<>> when absent)
NoActiveSlide == [selected |-> FALSE, dataSlideId |-> <<>>, id |-> <<>>]

ActiveSlide(dataSlideId, id) == [selected |-> TRUE, dataSlideId |-> dataSlideId, id |-> id]

\* getCurrentSlideId() with location.href = h and the page in state dom
GetCurrentSlideId(h, dom) ==
  LET slideMatch == MatchSlideId(h)
      numMatch == MatchCapture(h, S_slide_eq, "digit")
  IN IF slideMatch.found THEN slideMatch.group
     ELSE IF numMatch.found THEN numMatch.group
     ELSE IF dom.selected
          THEN (IF dom.dataSlideId # <<>> THEN dom.dataSlideId
                ELSE IF dom.id # <<>> THEN dom.id
                ELSE <<"0">>)
          ELSE <<"0">>

\* no exportFormat (null)
NoExport == <<>>

\* buildSlideUrl({ mode = 'EDIT', exportFormat = null }) of the version
\* with viewing modes and export formats
BuildSlideUrl_modes(h, mode, exportFormat, dom) ==
  LET idMatch == IdMatch(h)
      base == S_docs \o S_presentation_d \o idMatch.group
      slideNumber == GetCurrentSlideId(h, dom)
  IN IF ~idMatch.found THEN h
     ELSE IF exportFormat # NoExport
          THEN base \o S_export \o exportFormat \o S_amp_slide \o slideNumber
          ELSE IF mode = "DEMO" THEN base \o S_demo_slide_id \o slideNumber
          ELSE IF mode = "PRESENT" THEN base \o S_present_slide_id \o slideNumber
          ELSE IF mode = "MOBILE" THEN base \o S_mobile_slide_id \o slideNumber
          ELSE base \o S_edit_slide_id \o slideNumber

\* a buildSlideUrl that takes the slide from state.currentSlideId
BuildSlideUrl_fromState(h, mode, dom) ==
  LET idMatch == IdMatch(h)
  IN IF ~idMatch.found THEN h
     ELSE S_docs \o S_presentation_d \o idMatch.group \o S_edit_slide_id
            \o (IF state.currentSlideId = Undefined THEN <<"n", "u", "l", "l">>
                ELSE state.currentSlideId)

\* buildSlideUrl({ mode = 'EDIT' }) of the edit-only version
BuildSlideUrl_editOnly(h, mode, dom) ==
  LET idMatch == IdMatch(h)
  IN IF ~idMatch.found THEN h
     ELSE S_docs \o S_presentation_d \o idMatch.group \o S_edit_slide_id
            \o GetCurrentSlideId(h, dom)

(***************************************************************************)
(* The addresses buildSlideUrl is applied to: an origin, a path that       *)
(* carries the presentation ID or does not, what follows the ID, and a     *)
(* fragment.  A fragment is kept with the slide it names: the ID after     *)
(* "id." (slideId) or the number (index), <<>> when it has none.           *)
(***************************************************************************)
S_example == <<"h", "t", "t", "p", "s", ":", "/", "/", "d", "o", "c", "s", ".", "e", "x", "a", "m", "p", "l", "e", ".", "c", "o", "m">>

S_presentation_u_d == <<"/", "p", "r", "e", "s", "e", "n", "t", "a", "t", "i", "o", "n", "/", "u", "/", "0", "/", "d", "/">>

Origins == {S_docs, S_example}

IdPaths == {S_presentation_d, S_presentation_u_d}

DeckIds == {<<"A", "B", "C", "1", "2", "3">>, <<"A", "1">>}

AfterId == {<<"/", "e", "d", "i", "t">>, <<"/", "e", "d", "i", "t", "/", "x", "?", "y", "=", "1">>, <<>>}

Fragment(text, slideId, index) == [text |-> text, slideId |-> slideId, index |-> index]

Fragments ==
  {Fragment(<<>>, <<>>, <<>>),
   Fragment(S_slide_eq \o <<"3">>, <<>>, <<"3">>),
   Fragment(S_slide_id \o <<".", "p", "7">>, <<"p", "7">>, <<>>),
   Fragment(S_slide_id \o <<".", "g", "1", "_", "0", "&", "x", "=", "1">>, <<"g", "1", "_", "0">>, <<>>),
   Fragment(S_slide_id \o <<".", "1", "2">>, <<"1", "2">>, <<>>),
   Fragment(S_slide_eq \o <<"p">>, <<>>, <<>>)}

Address(origin, path, deckId, after, fragment) ==
  origin \o path \o deckId \o after \o fragment.text

\* an address of no presentation
HomeAddress(origin, fragment) == origin \o <<"/", "p", "r", "e", "s", "e", "n", "t", "a", "t", "i", "o", "n", "/">> \o fragment.text

Addresses ==
  {Address(o, p, d, a, fr) :
     o \in Origins, p \in IdPaths, d \in DeckIds, a \in AfterId, fr \in Fragments}
  \cup {HomeAddress(o, fr) : o \in Origins, fr \in Fragments}

\* the pages getCurrentSlideId can find
DomStates ==
  {NoActiveSlide,
   ActiveSlide(<<"g", "9">>, <<"s", "1">>),
   ActiveSlide(<<>>, <<"s", "1">>),
   ActiveSlide(<<>>, <<>>)}

(***************************************************************************)
(* A call of buildSlideUrl: the version called (fn), its arguments, the    *)
(* page, and at its return the match of the presentation ID, the slide it  *)
(* has settled on (<<>> when it returned before) and the URL returned.     *)
(***************************************************************************)
Built(fn, mode, slideNumber, exportFormat, dom, idMatch, slide, url) ==
  [fn |-> fn, mode |-> mode, slideNumber |-> slideNumber, exportFormat |-> exportFormat,
   dom |-> dom, idMatch |-> idMatch,
   slide |-> IF idMatch.found THEN slide ELSE <<>>, url |-> url]

NoBuilt ==
  Built("none", NoMode, Undefined, NoExport, NoActiveSlide,
        [found |-> FALSE, group |-> <<>>], <<>>, <<>>)

(***************************************************************************)
(* Messages.  Every message is a record of one shape; a field a message    *)
(* does not carry is Undefined (NoMode for mode).  source and origin are   *)
(* the MessageEvent's, set by the platform.                                *)
(***************************************************************************)
T_REQUEST == "REQUEST_SLIDE_URL"

T_RESPONSE == "SLIDE_URL"

\* the type of a message of some other script
T_OTHER == "OTHER"

\* an event whose data is null or undefined
T_NODATA == "<no data>"

Msg(type, mode, slideNumber, requestId, url, source) ==
  [type |-> type, mode |-> mode, slideNumber |-> slideNumber,
   requestId |-> requestId, url |-> url, source |-> source,
   origin |-> IF source = NoFrame THEN "" ELSE FrameOrigin(source)]

NoMsg == Msg(T_NODATA, NoMode, Undefined, Undefined, Undefined, NoFrame)

\* target.postMessage(msg, targetOrigin): the platform queues the message
\* when the target's origin is the target origin given, or for "*"
PostMessage(box, target, msg, targetOrigin) ==
  IF targetOrigin = "*" \/ targetOrigin = FrameOrigin(target)
  THEN [box EXCEPT ![target] = @ (+) SetToBag({msg})]
  ELSE box

\* the message queue of a frame with one message taken out
Take(box, f, msg) == [box EXCEPT ![f] = @ (-) SetToBag({msg})]

(***************************************************************************)
(* requestId = Math.random().toString(32).slice(2).  A random number is    *)
(* r/32 with r in RandomValues; 0 prints as "0" and r/32 as "0." followed  *)
(* by one base-32 digit.                                                   *)
(***************************************************************************)
RandomValues == {0, 8, 16}

Digit32(r) == IF r = 8 THEN "8" ELSE "g"

ToString32(r) == IF r = 0 THEN <<"0">> ELSE <<"0", ".", Digit32(r)>>

Slice2(s) == SubSeq(s, 3, Len(s))

MakeRequestId(r) == Slice2(ToString32(r))

\* what the share dialog's controls hand to requestUrl
UiInputs == {<<MODES_EDIT, <<>> >>}

(***************************************************************************)
(* The pending table: a Map from requestId to the resolver of a call; the  *)
(* resolver and the rejecter of a call are named by the number of the      *)
(* call.                                                                   *)
(***************************************************************************)
EmptyMap == [x \in {} |-> 0]

MapHas(map, k) == k \in DOMAIN map

MapSet(map, k, v) == [x \in DOMAIN map \cup {k} |-> IF x = k THEN v ELSE map[x]]

MapDelete(map, k) == [x \in DOMAIN map \ {k} |-> map[x]]

\* the settling callbacks of a promise, as the list of their invocations
Resolve(out, n, url) == [out EXCEPT ![n] = Append(@, [fn |-> "resolve", value |-> url])]

S_timed_out == <<"T", "i", "m", "e", "d", "-", "o", "u", "t">>

Reject(out, n) == [out EXCEPT ![n] = Append(@, [fn |-> "reject", value |-> S_timed_out])]

\* the state of a promise: its first settling invocation decides
PromiseState(invocations) ==
  IF invocations = <<>> THEN "pending"
  ELSE IF Head(invocations).fn = "resolve" THEN "fulfilled" ELSE "rejected"

(***************************************************************************)
(* The record of the handler that ran last: its kind, its frame, the       *)
(* message and the requestId it handled, the call it made or settled (0:   *)
(* none), and, when it is the delivery of a response to a frame right      *)
(* after the delivery, to that frame, of a response of the same requestId, *)
(* that this is so (again) and the call the earlier delivery settled       *)
(* (first).                                                                *)
(***************************************************************************)
\* the target origin recorded for a handler that posted nothing
NoPost == "no postMessage"

Repeats(kind, f, msg) ==
  /\ kind = "iframeMessage" /\ last.kind = kind /\ last.frame = f
  /\ msg.type = T_RESPONSE /\ last.msg.type = T_RESPONSE
  /\ last.msg.requestId = msg.requestId

Event(kind, f, id, msg, n) ==
  [kind |-> kind, frame |-> f, id |-> id, msg |-> msg, call |-> n,
   again |-> Repeats(kind, f, msg),
   first |-> IF Repeats(kind, f, msg) THEN last.call ELSE 0,
   targetOrigin |-> NoPost]

\* the event of a handler that called postMessage with this target origin
Posted(e, targetOrigin) == [e EXCEPT !.targetOrigin = targetOrigin]

Idle == [step |-> 0, call |-> 0]

(***************************************************************************)
(* The click handler of the copy button, one per click: where it is (at    *)
(* the await of requestUrl, at the await of clipboard.writeText, done),    *)
(* the URL it was given, whether its clipboard write took effect and the   *)
(* text it has set in the status line.                                     *)
(***************************************************************************)
S_link_copied == "Link copied!"

S_failed_to_copy == "Failed to copy"

AwaitUrl == [at |-> "awaitUrl", url |-> Undefined, wrote |-> FALSE, shown |-> ""]

NoClipboard == [text |-> Undefined, call |-> 0]

(***************************************************************************)
(* The page of the top frame.  Of the host's elements: the quick-actions   *)
(* menu (absent, hidden or visible), whether it has a 'Copy link' item,    *)
(* the elements with id current-slide-copy-option in it, whether the       *)
(* quick-actions button was clicked since the menu was last hidden;        *)
(* whether a dialog is in the document, whether a button or span with the  *)
(* text 'Copy link' is; the selected element that getCurrentSlideId        *)
(* reads.  Of the script's state object: the fields that are read, and     *)
(* with them lastSlideId of monitorSlideChanges (Undefined before it is    *)
(* called).                                                                *)
(***************************************************************************)
NoElements ==
  [menu |-> "absent", copyLink |-> FALSE, options |-> 0, clicked |-> FALSE,
   dialog |-> FALSE, copyLinkText |-> FALSE, activeSlide |-> NoActiveSlide]

NewState ==
  [isReady |-> FALSE, currentSlideId |-> Undefined, lastSlideId |-> Undefined,
   quickActionsInjected |-> FALSE, fallbackCheckDone |-> FALSE]

\* const maxAttempts = 20
maxAttempts == 20

\* a polling loop: its callback (checkForMenu, checkForDialog,
\* checkForCopyLink), the times the callback has run, whether it has found
\* its element and whether a timer of it is set
Poll(fn) == [fn |-> fn, attempts |-> 0, found |-> FALSE, scheduled |-> TRUE]

\* no handler is running
Quiet == \A f \in Iframes : pc[f] = Idle

(***************************************************************************)
(* The overlay button of the share dialog.  The buttons of the document    *)
(* are numbered in the order they were created, which is their document    *)
(* order; made counts them.  observers: the connected observers of         *)
(* setupDialogCloseDetection; dismissTimers: the buttons whose             *)
(* click-outside listener is still to be added; dismissListeners: those    *)
(* whose listener is registered.  replaced counts the buttons removed by a *)
(* new injection, late the injections made while no dialog was in the      *)
(* document.                                                               *)
(***************************************************************************)
NoOverlay ==
  [buttons |-> {}, made |-> 0, isInjecting |-> FALSE, observers |-> 0,
   dismissTimers |-> {}, dismissListeners |-> {}, replaced |-> 0, late |-> 0]

\* the copy control of a page (fn: "floating" of content.js, "old" of
\* content_old.js, "option" of the quick-actions menu): the URLs of the
\* clipboard writes its click handlers await, the clipboard, the tab
\* opened, the text, colour (class, in content_old.js) and opacity of its
\* status element, the timers that hide the status, the clicks made and the
\* latest click that has run to its end
NoClick == [url |-> Undefined, result |-> "none", option |-> <<>>]

NoCopy ==
  [fn |-> "none", writes |-> <<>>, clipboard |-> Undefined, tab |-> Undefined,
   text |-> "", colour |-> "", opacity |-> 0, hideTimers |-> 0, clicks |-> 0,
   latest |-> NoClick]

\* the frames after the script has run in each of them
Loaded ==
  /\ inbox = [f \in Frames |-> EmptyBag]
  /\ pending = [f \in Iframes |-> EmptyMap]
  /\ timers = [f \in Iframes |-> <<>>]
  /\ calls = <<>>
  /\ outcome = <<>>
  /\ pc = [f \in Iframes |-> Idle]
  /\ last = [kind |-> "init", frame |-> NoFrame, id |-> Undefined, msg |-> NoMsg,
             call |-> 0, again |-> FALSE, first |-> 0,
             targetOrigin |-> NoPost]
  /\ built = NoBuilt
  /\ click = <<>>
  /\ clipboard = NoClipboard
  /\ status = ""
  /\ statusTimers = 0
  /\ host = NoElements
  /\ state = NewState
  /\ polls = <<>>
  /\ tasks = EmptyBag
  /\ qaClicks = 0
  /\ fallbackChecks = 0
  /\ reqs = <<>>
  /\ overlay = NoOverlay
  /\ copy = NoCopy

Init ==
  /\ href = Href_edit3
  /\ Loaded

\* a requestUrl that sends before it registers
SendFirstFlow == <<"send", "register", "arm">>

\* a requestUrl that sets its timer a second time
ArmTwiceFlow == <<"register", "send", "arm", "arm">>

(***************************************************************************)
(* requestUrl: the promise executor runs to its end before the frame runs  *)
(* anything else.  Its three effects are steps taken in the order of       *)
(* RequestUrlFlow.                                                         *)
(***************************************************************************)
RequestUrlFlow == <<"register", "send", "arm">>

Advance(f) ==
  pc' = [pc EXCEPT ![f] = IF @.step = Len(RequestUrlFlow) THEN Idle
                          ELSE [@ EXCEPT !.step = @ + 1]]

AtStep(f, name) == pc[f].step > 0 /\ RequestUrlFlow[pc[f].step] = name

\* the call, with the requestId drawn
RequestUrl(f, mode, slideNumber, r) ==
  /\ Quiet
  /\ Len(calls) < MaxRequests
  /\ LET n == Len(calls) + 1
         c == [frame |-> f, mode |-> mode, slideNumber |-> slideNumber,
               requestId |-> MakeRequestId(r)]
     IN /\ calls' = Append(calls, c)
        /\ outcome' = Append(outcome, <<>>)
        /\ pc' = [pc EXCEPT ![f] = [step |-> 1, call |-> n]]
        /\ last' = Event("requestUrl", f, c.requestId, NoMsg, n)
  /\ click' = Append(click, AwaitUrl)
  /\ UNCHANGED <<elsewhere, built, href, inbox, pending, timers>>

\* pending.set(requestId, resolve)
RequestUrlRegister(f) ==
  /\ AtStep(f, "register")
  /\ pending' = [pending EXCEPT ![f] = MapSet(@, calls[pc[f].call].requestId, pc[f].call)]
  /\ Advance(f)
  /\ last' = Event("register", f, calls[pc[f].call].requestId, NoMsg, pc[f].call)
  /\ UNCHANGED <<overlay, copy, pageUi, reqs, dialogUi, built, href, inbox, timers, calls, outcome>>

RequestMsg(f, c) == Msg(T_REQUEST, c.mode, c.slideNumber, c.requestId, Undefined, f)

\* the second argument of window.parent.postMessage
RequestTargetOrigin == "*"

\* window.parent.postMessage({ type, mode, slideNumber, requestId }, '*')
RequestUrlSend(f) ==
  /\ AtStep(f, "send")
  /\ inbox' = PostMessage(inbox, Parent(f), RequestMsg(f, calls[pc[f].call]),
                          RequestTargetOrigin)
  /\ Advance(f)
  /\ last' = Posted(Event("send", f, calls[pc[f].call].requestId,
                          RequestMsg(f, calls[pc[f].call]), pc[f].call),
                    RequestTargetOrigin)
  /\ UNCHANGED <<overlay, copy, pageUi, reqs, dialogUi, built, href, pending, timers, calls, outcome>>

\* setTimeout(..., 3000): timers of one delay fire in the order they were set
RequestUrlArm(f) ==
  /\ AtStep(f, "arm")
  /\ timers' = [timers EXCEPT ![f] = Append(@, pc[f].call)]
  /\ Advance(f)
  /\ last' = Event("arm", f, calls[pc[f].call].requestId, NoMsg, pc[f].call)
  /\ UNCHANGED <<overlay, copy, pageUi, reqs, dialogUi, built, href, inbox, pending, calls, outcome>>

\* a timer callback that rejects and leaves the entry in the table
TimeoutEffectKeepsEntry(map, out, n, id) ==
  IF MapHas(map, id)
  THEN [pending |-> map, outcome |-> Reject(out, n)]
  ELSE [pending |-> map, outcome |-> out]

\* the callback of the timer of call n, whose requestId is id: the pending
\* table and the invocations of the callbacks after it
TimeoutEffect(map, out, n, id) ==
  IF MapHas(map, id)
  THEN [pending |-> MapDelete(map, id), outcome |-> Reject(out, n)]
  ELSE [pending |-> map, outcome |-> out]

\* the timer of the oldest call fires
Timeout(f) ==
  /\ Quiet
  /\ timers[f] # <<>>
  /\ LET n == Head(timers[f])
         e == TimeoutEffect(pending[f], outcome, n, calls[n].requestId)
     IN /\ pending' = [pending EXCEPT ![f] = e.pending]
        /\ outcome' = e.outcome
        /\ last' = Event("timeout", f, calls[n].requestId, NoMsg, n)
  /\ timers' = [timers EXCEPT ![f] = Tail(@)]
  /\ UNCHANGED <<overlay, copy, pageUi, reqs, dialogUi, built, href, inbox, calls, pc>>

(***************************************************************************)
(* The click handler after requestUrl has settled, and after               *)
(* navigator.clipboard.writeText has.                                      *)
(***************************************************************************)
\* a handler that copies whatever requestUrl settled with
AfterRequestUrlCopiesAlways(c, invocations) ==
  [c EXCEPT !.at = "awaitWrite", !.url = Head(invocations).value]

\* const url = await requestUrl(...): the handler goes on to writeText(url),
\* or to the catch block
AfterRequestUrl(c, invocations) ==
  IF PromiseState(invocations) = "fulfilled"
  THEN [c EXCEPT !.at = "awaitWrite", !.url = Head(invocations).value]
  ELSE [c EXCEPT !.at = "done", !.shown = S_failed_to_copy]

ClickResume(n) ==
  /\ Quiet
  /\ n \in DOMAIN click
  /\ click[n].at = "awaitUrl"
  /\ PromiseState(outcome[n]) # "pending"
  /\ click' = [click EXCEPT ![n] = AfterRequestUrl(@, outcome[n])]
  /\ IF click'[n].at = "done"
     THEN status' = click'[n].shown /\ statusTimers' = statusTimers + 1
     ELSE UNCHANGED <<overlay, copy, status, statusTimers>>
  /\ last' = Event("clickResume", calls[n].frame, calls[n].requestId, NoMsg, n)
  /\ UNCHANGED <<overlay, copy, reqs, pageUi, clipboard, built, href, inbox, pending, timers, calls, outcome, pc>>

\* await navigator.clipboard.writeText(url) settles: the clipboard holds
\* the URL (ok), or the write was refused and the catch block runs
ClickWritten(n, ok) ==
  /\ Quiet
  /\ n \in DOMAIN click
  /\ click[n].at = "awaitWrite"
  /\ click' = [click EXCEPT ![n] = [@ EXCEPT !.at = "done", !.wrote = ok,
                                     !.shown = IF ok THEN S_link_copied
                                               ELSE S_failed_to_copy]]
  /\ clipboard' = IF ok THEN [text |-> click[n].url, call |-> n] ELSE clipboard
  /\ status' = click'[n].shown
  /\ statusTimers' = statusTimers + 1
  /\ last' = Event("clickWritten", calls[n].frame, calls[n].requestId, NoMsg, n)
  /\ UNCHANGED <<overlay, copy, reqs, pageUi, built, href, inbox, pending, timers, calls, outcome, pc>>

\* setTimeout(() => (status.textContent = ''), 3000)
ClearStatus ==
  /\ Quiet
  /\ statusTimers > 0
  /\ status' = ""
  /\ statusTimers' = statusTimers - 1
  /\ last' = Event("clearStatus", NoFrame, Undefined, NoMsg, 0)
  /\ UNCHANGED <<overlay, copy, reqs, pageUi, click, clipboard, built, href, inbox, pending, timers, calls, outcome, pc>>

(***************************************************************************)
(* The quick-actions menu: injectCurrentSlideOption and the scans, the     *)
(* click listener and the timers that call it.                             *)
(***************************************************************************)
\* an injection that checks neither the flag nor the menu
InjectAlways(st, h) ==
  IF ~h.copyLink THEN [state |-> st, host |-> h]
  ELSE [state |-> [st EXCEPT !.quickActionsInjected = TRUE],
        host |-> [h EXCEPT !.options = @ + 1]]

\* injectCurrentSlideOption(menu): the state object and the elements after it
InjectCurrentSlideOption(st, h) ==
  IF st.quickActionsInjected THEN [state |-> st, host |-> h]
  ELSE IF ~h.copyLink THEN [state |-> st, host |-> h]
  ELSE IF h.options > 0
  THEN [state |-> [st EXCEPT !.quickActionsInjected = TRUE], host |-> h]
  ELSE [state |-> [st EXCEPT !.quickActionsInjected = TRUE],
        host |-> [h EXCEPT !.options = @ + 1]]

\* scanForExistingQuickActionsMenu(): the state object, the elements and
\* the timers after it
ScanForExistingQuickActionsMenu(st, h, ts) ==
  LET st1 == [st EXCEPT !.currentSlideId = GetCurrentSlideId(href, h.activeSlide)]
  IN IF h.menu # "absent"
     THEN LET e == InjectCurrentSlideOption(st1, h)
          IN [state |-> e.state, host |-> e.host, tasks |-> ts]
     ELSE [state |-> st1, host |-> h, tasks |-> ts (+) SetToBag({"delayedScan"})]

\* waitForSlidesReady().then(...) of the main frame: the click listener is
\* added, the menu is scanned for and the delayed scan is set
MainReady ==
  /\ ~state.isReady
  /\ LET e == ScanForExistingQuickActionsMenu([state EXCEPT !.isReady = TRUE], host, tasks)
     IN /\ state' = e.state
        /\ host' = e.host
        /\ tasks' = e.tasks (+) SetToBag({"initDelayedScan"})
  /\ last' = Event("mainReady", Top, Undefined, NoMsg, 0)
  /\ UNCHANGED <<overlay, copy, polls, qaClicks, fallbackChecks, reqs, dialogUi, built, href, inbox, pending,
                 timers, calls, outcome, pc>>

\* the timer of scanForExistingQuickActionsMenu, 1000 ms
DelayedScanTask ==
  /\ BagIn("delayedScan", tasks)
  /\ LET e == IF host.menu # "absent" THEN InjectCurrentSlideOption(state, host)
              ELSE [state |-> state, host |-> host]
     IN state' = e.state /\ host' = e.host
  /\ tasks' = tasks (-) SetToBag({"delayedScan"})
  /\ last' = Event("delayedScan", Top, Undefined, NoMsg, 0)
  /\ UNCHANGED <<overlay, copy, polls, qaClicks, fallbackChecks, reqs, dialogUi, built, href, inbox, pending,
                 timers, calls, outcome, pc>>

\* the timer of the initialisation, 1000 ms
InitDelayedScanTask ==
  /\ BagIn("initDelayedScan", tasks)
  /\ LET ts == tasks (-) SetToBag({"initDelayedScan"})
         e == IF ~state.quickActionsInjected
              THEN ScanForExistingQuickActionsMenu(state, host, ts)
              ELSE [state |-> state, host |-> host, tasks |-> ts]
     IN state' = e.state /\ host' = e.host /\ tasks' = e.tasks
  /\ last' = Event("initDelayedScan", Top, Undefined, NoMsg, 0)
  /\ UNCHANGED <<overlay, copy, polls, qaClicks, fallbackChecks, reqs, dialogUi, built, href, inbox, pending,
                 timers, calls, outcome, pc>>

\* the state object after the click listener has run: the verification
\* branch leaves fallbackCheckDone to its timer
FallbackAtClick(st) ==
  IF ~st.quickActionsInjected THEN [st EXCEPT !.fallbackCheckDone = TRUE] ELSE st

\* a click on the quick-actions button: the listener of
\* setupQuickActionsMenuDetection
ClickQuickActions ==
  /\ state.isReady
  /\ qaClicks < MaxClicks
  /\ qaClicks' = qaClicks + 1
  /\ host' = [host EXCEPT !.clicked = TRUE]
  /\ LET st == [state EXCEPT !.currentSlideId = GetCurrentSlideId(href, host.activeSlide)]
     IN IF ~st.quickActionsInjected /\ ~st.fallbackCheckDone
        THEN /\ state' = FallbackAtClick(st)
             /\ polls' = Append(polls, Poll("checkForMenu"))
             /\ fallbackChecks' = fallbackChecks + 1
             /\ tasks' = tasks
        ELSE IF st.quickActionsInjected /\ ~st.fallbackCheckDone
        THEN /\ state' = FallbackAtClick(st)
             /\ tasks' = tasks (+) SetToBag({"verify"})
             /\ UNCHANGED <<overlay, copy, polls, fallbackChecks>>
        ELSE /\ state' = st
             /\ UNCHANGED <<overlay, copy, polls, fallbackChecks, tasks>>
  /\ last' = Event("clickQuickActions", Top, Undefined, NoMsg, 0)
  /\ UNCHANGED <<overlay, copy, reqs, dialogUi, built, href, inbox, pending, timers, calls, outcome, pc>>

\* the timer of the verification branch, 100 ms
VerifyTask ==
  /\ BagIn("verify", tasks)
  /\ tasks' = tasks (-) SetToBag({"verify"})
  /\ LET e == IF host.menu = "visible" /\ host.options = 0
              THEN InjectCurrentSlideOption([state EXCEPT !.quickActionsInjected = FALSE], host)
              ELSE [state |-> state, host |-> host]
     IN /\ state' = [e.state EXCEPT !.fallbackCheckDone = TRUE]
        /\ host' = e.host
  /\ fallbackChecks' = fallbackChecks + 1
  /\ last' = Event("verify", Top, Undefined, NoMsg, 0)
  /\ UNCHANGED <<overlay, copy, polls, qaClicks, reqs, dialogUi, built, href, inbox, pending, timers, calls,
                 outcome, pc>>

\* the timer of checkForMenu after it has found the menu, 100 ms
InjectTask ==
  /\ BagIn("inject", tasks)
  /\ tasks' = tasks (-) SetToBag({"inject"})
  /\ LET e == InjectCurrentSlideOption(state, host)
     IN state' = e.state /\ host' = e.host
  /\ last' = Event("inject", Top, Undefined, NoMsg, 0)
  /\ UNCHANGED <<overlay, copy, polls, qaClicks, fallbackChecks, reqs, dialogUi, built, href, inbox, pending,
                 timers, calls, outcome, pc>>

(***************************************************************************)
(* monitorSlideChanges: the slide shown changes, by its address or by the  *)
(* element the page marks as selected, and state.currentSlideId follows.   *)
(***************************************************************************)
\* if (currentSlideId !== lastSlideId) { lastSlideId = ...; handleSlideChange(...) }
HandleIfChanged(st, id) ==
  IF id # st.lastSlideId THEN [st EXCEPT !.lastSlideId = id, !.currentSlideId = id]
  ELSE st

\* monitorSlideChanges(): let lastSlideId = getCurrentSlideId()
MonitorSlideChanges ==
  /\ state.lastSlideId = Undefined
  /\ state' = [state EXCEPT !.lastSlideId = GetCurrentSlideId(href, host.activeSlide)]
  /\ last' = Event("monitorSlideChanges", Top, Undefined, NoMsg, 0)
  /\ UNCHANGED <<overlay, copy, host, polls, tasks, qaClicks, fallbackChecks, reqs, dialogUi, built, href, inbox,
                 pending, timers, calls, outcome, pc>>

\* the host shows another slide and changes the address (pushState,
\* replaceState, hashchange): handlePotentialSlideChange sets its timer
SlideChange(h) ==
  /\ state.lastSlideId # Undefined
  /\ h # href
  /\ CopiesIn("slideChange", tasks) < MaxSlideChanges
  /\ href' = h
  /\ tasks' = tasks (+) SetToBag({"slideChange"})
  /\ last' = Event("slideChange", Top, Undefined, NoMsg, 0)
  /\ UNCHANGED <<overlay, copy, host, state, polls, qaClicks, fallbackChecks, reqs, dialogUi, built, inbox,
                 pending, timers, calls, outcome, pc>>

\* the timer of handlePotentialSlideChange, 100 ms
SlideChangeTask ==
  /\ BagIn("slideChange", tasks)
  /\ tasks' = tasks (-) SetToBag({"slideChange"})
  /\ state' = HandleIfChanged(state, GetCurrentSlideId(href, host.activeSlide))
  /\ last' = Event("handlePotentialSlideChange", Top, Undefined, NoMsg, 0)
  /\ UNCHANGED <<overlay, copy, host, polls, qaClicks, fallbackChecks, reqs, dialogUi, built, href, inbox,
                 pending, timers, calls, outcome, pc>>

\* the page marks another element as selected: the MutationObserver's
\* callback runs
SlideSelected(dom) ==
  /\ state.lastSlideId # Undefined
  /\ dom # host.activeSlide
  /\ host' = [host EXCEPT !.activeSlide = dom]
  /\ state' = HandleIfChanged(state, GetCurrentSlideId(href, dom))
  /\ last' = Event("slideObserver", Top, Undefined, NoMsg, 0)
  /\ UNCHANGED <<overlay, copy, polls, tasks, qaClicks, fallbackChecks, reqs, dialogUi, built, href, inbox,
                 pending, timers, calls, outcome, pc>>

(***************************************************************************)
(* The polling loops.                                                      *)
(***************************************************************************)
\* what the query of a callback finds
QueryFinds(fn, h) ==
  IF fn = "checkForMenu" THEN h.menu = "visible"
  ELSE IF fn = "checkForDialog" THEN h.dialog
  ELSE h.copyLinkText

\* the loop after its callback has run and found its element (hit) or not;
\* checkForCopyLink has no counter: its attempts are those of the model
PollAfter(p, hit) ==
  IF p.fn = "checkForCopyLink"
  THEN [p EXCEPT !.attempts = @ + 1, !.found = hit, !.scheduled = ~hit]
  ELSE IF p.found THEN [p EXCEPT !.scheduled = FALSE]
  ELSE [p EXCEPT !.attempts = @ + 1, !.found = hit,
                 !.scheduled = ~hit /\ p.attempts + 1 < maxAttempts]

\* a timer of loop i fires
PollTick(i) ==
  /\ i \in DOMAIN polls
  /\ polls[i].scheduled
  /\ polls[i].attempts < MaxPollRuns
  /\ LET hit == QueryFinds(polls[i].fn, host)
     IN /\ polls' = [polls EXCEPT ![i] = PollAfter(@, hit)]
        /\ tasks' = IF polls[i].fn = "checkForMenu" /\ ~polls[i].found /\ hit
                    THEN tasks (+) SetToBag({"inject"})
                    ELSE IF polls[i].fn = "checkForDialog" /\ ~polls[i].found /\ hit
                    THEN tasks (+) SetToBag({"analyze"})
                    ELSE tasks
  /\ last' = Event(polls[i].fn, Top, Undefined, NoMsg, 0)
  /\ UNCHANGED <<overlay, copy, host, state, qaClicks, fallbackChecks, reqs, dialogUi, built, href, inbox,
                 pending, timers, calls, outcome, pc>>

\* a click on the Share button: waitForShareDialog (checkForDialog), or in
\* content_old.js the poll for 'Copy link' (checkForCopyLink)
ShareClick(fn) ==
  /\ Len(polls) < MaxPolls
  /\ polls' = Append(polls, Poll(fn))
  /\ last' = Event("shareClick", Top, Undefined, NoMsg, 0)
  /\ UNCHANGED <<overlay, copy, host, state, tasks, qaClicks, fallbackChecks, reqs, dialogUi, built, href, inbox,
                 pending, timers, calls, outcome, pc>>

(***************************************************************************)
(* The overlay button: analyzeDialogButtons, injectTestButton and          *)
(* setupDialogCloseDetection.                                              *)
(***************************************************************************)
First(S) == CHOOSE g \in S : \A k \in S : g <= k

\* document.getElementById('slide-url-copy-button-overlay') and remove()
RemoveById(o) ==
  IF o.buttons = {} THEN o ELSE [o EXCEPT !.buttons = @ \ {First(@)}]

\* injectTestButton: all buttons of the id or the class are removed, the
\* new one is appended to the body and its click-outside timer is set
InjectTestButton(o) ==
  IF o.isInjecting THEN o
  ELSE [o EXCEPT !.buttons = {o.made + 1}, !.made = @ + 1,
                 !.dismissTimers = @ \cup {o.made + 1}, !.isInjecting = FALSE]

\* setupDialogCloseDetection: one more observer of removed nodes
SetupDialogCloseDetection(o) == [o EXCEPT !.observers = @ + 1]

\* the counters of the model after an injection
Counted(o, before, dialogThere) ==
  [o EXCEPT !.replaced = IF before.buttons # {} THEN @ + 1 ELSE @,
            !.late = IF dialogThere THEN @ ELSE @ + 1]

\* an analyzeDialogButtons that appends a button and removes none
AnalyzeWithoutCleanup(o, dialogThere) ==
  Counted(SetupDialogCloseDetection(
            [o EXCEPT !.buttons = @ \cup {o.made + 1}, !.made = @ + 1,
                      !.dismissTimers = @ \cup {o.made + 1}]), o, dialogThere)

\* analyzeDialogButtons from its cleanup on; the dialog element it was
\* given is in the document (dialogThere) or not
AnalyzeDialogButtons(o, dialogThere) ==
  Counted(SetupDialogCloseDetection(InjectTestButton(RemoveById(o))), o, dialogThere)

\* the timer of waitForShareDialog fires, 200 ms after the dialog was found
AnalyzeTask ==
  /\ BagIn("analyze", tasks)
  /\ overlay.made < MaxInjections
  /\ tasks' = tasks (-) SetToBag({"analyze"})
  /\ overlay' = AnalyzeDialogButtons(overlay, host.dialog)
  /\ last' = Event("analyzeDialogButtons", Top, Undefined, NoMsg, 0)
  /\ UNCHANGED <<host, state, polls, qaClicks, fallbackChecks, copy, apart>>

\* a node with the text 'Share' is added inside the dialog: the observers
\* that call detectAndLogDialogs reach analyzeDialogButtons
ShareTextAdded ==
  /\ host.dialog
  /\ overlay.made < MaxInjections
  /\ overlay' = AnalyzeDialogButtons(overlay, TRUE)
  /\ last' = Event("detectAndLogDialogs", Top, Undefined, NoMsg, 0)
  /\ UNCHANGED <<pageUi, copy, apart>>

\* the host adds its share dialog to the document
DialogOpened ==
  /\ ~host.dialog
  /\ host' = [host EXCEPT !.dialog = TRUE]
  /\ last' = Event("host", Top, Undefined, NoMsg, 0)
  /\ UNCHANGED <<state, polls, tasks, qaClicks, fallbackChecks, overlay, copy, apart>>

\* the callbacks of the connected dialog observers on a removed dialog
DialogObservers(o) ==
  IF o.observers = 0 THEN o
  ELSE [RemoveById(o) EXCEPT !.isInjecting = FALSE, !.observers = 0]

\* the host removes its share dialog from the document
DialogRemoved ==
  /\ host.dialog
  /\ host' = [host EXCEPT !.dialog = FALSE]
  /\ overlay' = DialogObservers(overlay)
  /\ last' = Event("dialogRemoved", Top, Undefined, NoMsg, 0)
  /\ UNCHANGED <<state, polls, tasks, qaClicks, fallbackChecks, copy, apart>>

\* the timer of 1000 ms adds the click-outside listener of button g
DismissArm(g) ==
  /\ g \in overlay.dismissTimers
  /\ overlay' = [overlay EXCEPT !.dismissTimers = @ \ {g}, !.dismissListeners = @ \cup {g}]
  /\ last' = Event("dismissArm", Top, Undefined, NoMsg, g)
  /\ UNCHANGED <<pageUi, copy, apart>>

\* a click that is not on the overlay button: every registered
\* dismissOnClickOutside removes its button and itself
ClickOutside ==
  /\ overlay.dismissListeners # {}
  /\ overlay' = [overlay EXCEPT !.buttons = @ \ overlay.dismissListeners,
                                !.dismissListeners = {}, !.isInjecting = FALSE]
  /\ last' = Event("clickOutside", Top, Undefined, NoMsg, 0)
  /\ UNCHANGED <<pageUi, copy, apart>>

(***************************************************************************)
(* The host page: it creates its quick-actions menu, shows and hides it,   *)
(* renders its items anew, and opens and closes its share dialog.          *)
(***************************************************************************)
HostChanges(h) ==
  /\ h # host
  /\ host' = h
  /\ last' = Event("host", Top, Undefined, NoMsg, 0)
  /\ UNCHANGED <<overlay, copy, state, polls, tasks, qaClicks, fallbackChecks, reqs, dialogUi, built, href, inbox,
                 pending, timers, calls, outcome, pc>>

HostMenu ==
  \/ \E c \in BOOLEAN :
       host.menu = "absent" /\ HostChanges([host EXCEPT !.menu = "hidden", !.copyLink = c])
  \/ host.menu = "hidden" /\ HostChanges([host EXCEPT !.menu = "visible"])
  \/ host.menu = "visible" /\ HostChanges([host EXCEPT !.menu = "hidden", !.clicked = FALSE])
  \/ \E c \in BOOLEAN :
       host.menu # "absent" /\ HostChanges([host EXCEPT !.copyLink = c, !.options = 0])

HostDialog ==
  \/ HostChanges([host EXCEPT !.dialog = ~@])
  \/ HostChanges([host EXCEPT !.copyLinkText = ~@])

(***************************************************************************)
(* The message listener of a frame that is not the top frame.              *)
(***************************************************************************)
\* !data || data.type !== 'SLIDE_URL' || !data.requestId
IframeIgnores(m) == m.type = T_NODATA \/ m.type # T_RESPONSE \/ Falsy(m.requestId)

\* a listener that fulfils and leaves the entry in the table
IframeEffectKeepsEntry(map, out, m) ==
  IF ~IframeIgnores(m) /\ MapHas(map, m.requestId)
  THEN [pending |-> map, outcome |-> Resolve(out, map[m.requestId], m.url)]
  ELSE [pending |-> map, outcome |-> out]

\* a listener that does not correlate: a response fulfils a pending request
\* whatever its requestId
IframeEffectAnyPending(map, out, m) ==
  IF m.type = T_RESPONSE /\ DOMAIN map # {}
  THEN LET id == IF MapHas(map, m.requestId) THEN m.requestId
                 ELSE CHOOSE x \in DOMAIN map : TRUE
       IN [pending |-> MapDelete(map, id), outcome |-> Resolve(out, map[id], m.url)]
  ELSE [pending |-> map, outcome |-> out]

\* the pending table and the invocations after the listener has run on m
IframeEffect(map, out, m) ==
  IF ~IframeIgnores(m) /\ MapHas(map, m.requestId)
  THEN [pending |-> MapDelete(map, m.requestId),
        outcome |-> Resolve(out, map[m.requestId], m.url)]
  ELSE [pending |-> map, outcome |-> out]

IframeListener(f, m) ==
  /\ Quiet
  /\ BagIn(m, inbox[f])
  /\ inbox' = Take(inbox, f, m)
  /\ LET e == IframeEffect(pending[f], outcome, m)
     IN /\ pending' = [pending EXCEPT ![f] = e.pending]
        /\ outcome' = e.outcome
        /\ last' = Event("iframeMessage", f, m.requestId, m,
                         IF e.outcome = outcome THEN 0
                         ELSE CHOOSE n \in DOMAIN outcome : e.outcome[n] # outcome[n])
  /\ UNCHANGED <<overlay, copy, pageUi, reqs, dialogUi, built, href, timers, calls, pc>>

(***************************************************************************)
(* The message listener of the top frame.                                  *)
(***************************************************************************)
\* a guard that tests the data only, not its type
TopIgnoresNoType(m) == m.type = T_NODATA

\* !data || data.type !== 'REQUEST_SLIDE_URL'
TopIgnores(m) == m.type = T_NODATA \/ m.type # T_REQUEST

\* a response that does not carry the requestId
ResponseMsgNoEcho(h, m) ==
  Msg(T_RESPONSE, NoMode, Undefined, Undefined, BuildSlideUrl(h, m.mode, m.slideNumber), Top)

\* { type: 'SLIDE_URL', url, requestId }, as the event the source receives
ResponseMsg(h, m) ==
  Msg(T_RESPONSE, NoMode, Undefined, m.requestId, BuildSlideUrl(h, m.mode, m.slideNumber), Top)

\* a responder that posts its response to any origin
WildcardTargetOrigin(m) == "*"

\* the second argument of source?.postMessage: the origin of the request
\* event
ReplyTargetOrigin(m) == m.origin

\* a responder that answers one request at a time: no response while the
\* source has a message waiting
TopReplySkipsBusy(box, h, m) ==
  IF m.source = NoFrame \/ box[m.source] # EmptyBag THEN box
  ELSE PostMessage(box, m.source, ResponseMsg(h, m), ReplyTargetOrigin(m))

\* source?.postMessage(response, origin)
TopReply(box, h, m) ==
  IF m.source = NoFrame THEN box
  ELSE PostMessage(box, m.source, ResponseMsg(h, m), ReplyTargetOrigin(m))

TopListener(m) ==
  /\ Quiet
  /\ BagIn(m, inbox[Top])
  /\ inbox' = IF TopIgnores(m) THEN Take(inbox, Top, m)
              ELSE TopReply(Take(inbox, Top, m), href, m)
  /\ last' = IF TopIgnores(m) \/ m.source = NoFrame
             THEN Event("topMessage", Top, m.requestId, m, 0)
             ELSE Posted(Event("topMessage", Top, m.requestId, m, 0), ReplyTargetOrigin(m))
  /\ UNCHANGED <<overlay, copy, pageUi, reqs, dialogUi, built, href, pending, timers, calls, outcome, pc>>

\* the address of the top frame changes (another slide is shown)
Navigate(h) ==
  /\ Quiet
  /\ h # href
  /\ href' = h
  /\ last' = Event("navigate", Top, Undefined, NoMsg, 0)
  /\ UNCHANGED <<overlay, copy, pageUi, reqs, dialogUi, built, inbox, pending, timers, calls, outcome, pc>>

(***************************************************************************)
(* Messages of other scripts, posted to the window of a frame.  To a       *)
(* frame that is not the top frame: a response that repeats or forges a    *)
(* requestId, a response without requestId, a message of another protocol. *)
(* To the top frame: requests of every shape, one of them from a frame     *)
(* that is gone when the request is handled (its event has no source), a   *)
(* message of another protocol and an event without data.                  *)
(***************************************************************************)
S_spurious == <<"x">>

IframeNoise ==
  {Msg(T_RESPONSE, NoMode, Undefined, <<"g">>, S_spurious, Top),
   Msg(T_RESPONSE, NoMode, Undefined, Undefined, S_spurious, Top),
   Msg(T_OTHER, NoMode, Undefined, <<"g">>, S_spurious, Top)}

TopNoise ==
  {Msg(T_REQUEST, mode, s, id, Undefined, 1) :
     mode \in {MODES_EDIT, MODES_PREVIEW, NoMode}, s \in {Undefined, <<"5">>},
     id \in {<<"g">>, <<>>}}
  \cup {Msg(T_REQUEST, MODES_PREVIEW, <<>>, <<"8">>, Undefined, NoFrame),
        Msg(T_OTHER, NoMode, Undefined, <<"g">>, Undefined, 1),
        NoMsg}

RECURSIVE SumQueues(_)
SumQueues(fs) ==
  IF fs = {} THEN 0
  ELSE LET f == CHOOSE x \in fs : TRUE
       IN BagCardinality(inbox[f]) + SumQueues(fs \ {f})

InFlight == SumQueues(Frames)

\* another script posts m to frame f while fewer than cap messages are in
\* flight
Env(f, m, cap) ==
  /\ Quiet
  /\ InFlight < cap
  /\ inbox' = [inbox EXCEPT ![f] = @ (+) SetToBag({m})]
  /\ last' = Event("env", f, m.requestId, m, 0)
  /\ UNCHANGED <<overlay, copy, pageUi, reqs, dialogUi, built, href, pending, timers, calls, outcome, pc>>

(***************************************************************************)
(* The protocol without requestId (requestSlideUrlFromMainFrame and        *)
(* setupMainFrameMessageHandler).  A request is kept with its mode and     *)
(* export format, whether its message listener is registered, whether its  *)
(* 5-second timer is set, and the invocations of its promise's callbacks.  *)
(***************************************************************************)
T_GET == "GET_SLIDE_URL"

T_URL_RESPONSE == "SLIDE_URL_RESPONSE"

\* the error field of a response that has none
NoError == ""

S_timeout_waiting == "Timeout waiting for slide URL"

\* the message of an exception thrown while the URL is built
S_build_failed == "build failed"

FrameMsg(type, mode, exportFormat, url, error, source) ==
  [type |-> type, mode |-> mode, exportFormat |-> exportFormat, url |-> url,
   error |-> error, source |-> source,
   origin |-> IF source = NoFrame THEN "" ELSE FrameOrigin(source)]

\* mode = 'EDIT' of the parameter list, event.data.mode || 'EDIT' of the
\* responder
ModeOr(mode) == IF mode = NoMode THEN "EDIT" ELSE mode

Request(f, mode, exportFormat) ==
  [frame |-> f, mode |-> mode, exportFormat |-> exportFormat, listening |-> TRUE,
   timer |-> TRUE, invocations |-> <<>>]

\* requestSlideUrlFromMainFrame(mode, exportFormat): the executor sets the
\* timer, adds the listener and posts the request
RequestSlideUrlFromMainFrame(f, mode, exportFormat) ==
  /\ Len(reqs) < MaxRequests
  /\ reqs' = Append(reqs, Request(f, ModeOr(mode), exportFormat))
  /\ inbox' = PostMessage(inbox, Parent(f),
                          FrameMsg(T_GET, ModeOr(mode), exportFormat, Undefined, NoError, f),
                          "*")
  /\ last' = Event("requestSlideUrlFromMainFrame", f, Undefined, NoMsg, Len(reqs) + 1)
  /\ UNCHANGED <<overlay, copy, pageUi, dialogUi, built, href, pending, timers, calls, outcome, pc>>

\* the callback of the 5-second timer: reject(new Error(...))
TimedOut(r) ==
  [r EXCEPT !.timer = FALSE,
            !.invocations = Append(@, [fn |-> "reject", value |-> S_timeout_waiting])]

\* the timer of request n fires; timers fire in the order they were set
FrameTimeout(n) ==
  /\ n \in DOMAIN reqs
  /\ reqs[n].timer
  /\ \A k \in 1..(n - 1) : ~reqs[k].timer
  /\ reqs' = [reqs EXCEPT ![n] = TimedOut(@)]
  /\ last' = Event("frameTimeout", reqs[n].frame, Undefined, NoMsg, n)
  /\ UNCHANGED <<overlay, copy, pageUi, dialogUi, built, href, inbox, pending, timers, calls, outcome, pc>>

\* a listener that resolves with the url of every response
MessageHandlerResolvesAlways(r, m) ==
  IF m.type = T_URL_RESPONSE
  THEN [r EXCEPT !.timer = FALSE, !.listening = FALSE,
                 !.invocations = Append(@, [fn |-> "resolve", value |-> m.url])]
  ELSE r

\* messageHandler of a request, run on the event of message m
MessageHandler(r, m) ==
  IF m.type = T_URL_RESPONSE
  THEN [r EXCEPT !.timer = FALSE, !.listening = FALSE,
                 !.invocations =
                   Append(@, IF m.error # NoError
                             THEN [fn |-> "reject", value |-> m.error]
                             ELSE [fn |-> "resolve", value |-> m.url])]
  ELSE r

\* a message event in frame f: every listener registered in f runs
FrameListeners(f, m) ==
  /\ BagIn(m, inbox[f])
  /\ inbox' = Take(inbox, f, m)
  /\ reqs' = [n \in DOMAIN reqs |->
                IF reqs[n].frame = f /\ reqs[n].listening THEN MessageHandler(reqs[n], m)
                ELSE reqs[n]]
  /\ last' = Event("frameMessage", f, Undefined, m, 0)
  /\ UNCHANGED <<overlay, copy, pageUi, dialogUi, built, href, pending, timers, calls, outcome, pc>>

\* the response of the try block, or of the catch block when buildSlideUrl
\* threw
MainFrameResponse(h, m, threw) ==
  IF threw
  THEN FrameMsg(T_URL_RESPONSE, NoMode, NoExport, h, S_build_failed, Top)
  ELSE FrameMsg(T_URL_RESPONSE, ModeOr(m.mode), m.exportFormat,
                BuildSlideUrl_modes(h, ModeOr(m.mode), m.exportFormat, host.activeSlide),
                NoError, Top)

\* the listener of setupMainFrameMessageHandler on message m.  threw: an
\* exception leaves buildSlideUrl.  event.source is null when the frame that
\* sent m is gone: postMessage throws in the try block and again in the
\* catch block, and nothing is sent
MainFrameHandler(m, threw) ==
  /\ BagIn(m, inbox[Top])
  /\ inbox' = IF m.type # T_GET \/ m.source = NoFrame THEN Take(inbox, Top, m)
              ELSE PostMessage(Take(inbox, Top, m), m.source,
                               MainFrameResponse(href, m, threw), m.origin)
  /\ last' = Event(IF m.type = T_GET /\ threw THEN "buildThrew" ELSE "mainMessage",
                   Top, Undefined, m, 0)
  /\ UNCHANGED <<overlay, copy, reqs, pageUi, dialogUi, built, href, pending, timers, calls, outcome, pc>>

\* the frame of a request is removed before the main frame handles it
SourceGone(m) ==
  /\ BagIn(m, inbox[Top])
  /\ m.source # NoFrame
  /\ inbox' = [inbox EXCEPT ![Top] =
                 (@ (-) SetToBag({m})) (+) SetToBag({[m EXCEPT !.source = NoFrame, !.origin = ""]})]
  /\ last' = Event("sourceGone", Top, Undefined, m, 0)
  /\ UNCHANGED <<overlay, copy, reqs, pageUi, dialogUi, built, href, pending, timers, calls, outcome, pc>>

\* what the menu options hand to requestSlideUrlFromMainFrame
MenuOptions ==
  {<<"EDIT", NoExport>>, <<"DEMO", NoExport>>, <<NoMode, <<"p", "n", "g">> >>}

FrameNext ==
  \/ \E f \in Children, o \in MenuOptions : RequestSlideUrlFromMainFrame(f, o[1], o[2])
  \/ \E n \in DOMAIN reqs : FrameTimeout(n)
  \/ \E f \in Children : \E m \in BagToSet(inbox[f]) : FrameListeners(f, m)
  \/ \E m \in BagToSet(inbox[Top]), threw \in BOOLEAN : MainFrameHandler(m, threw)
  \/ \E m \in BagToSet(inbox[Top]) : SourceGone(m)

FrameSpec == Init /\ [][FrameNext]_vars

(***************************************************************************)
(* The copy controls: the floating button of content.js, the controls of   *)
(* content_old.js and the options of the quick-actions menu.  A click      *)
(* handler runs to its await of navigator.clipboard.writeText; the write   *)
(* succeeds or is refused (the document has no focus, no permission).      *)
(***************************************************************************)
S_copied == "Copied!"

C_success == "#1e8e3e"

C_error == "#d93025"

S_unable_to_copy == "Unable to copy link. "

S_unable_to_detect == "Unable to detect presentation ID"

\* the message of the error writeText rejects with
S_write_refused == "Write permission denied."

S_link_copied_tooltip == "Link copied"

S_error_occurred == "Error occurred"

S_export_started == " export started"

S_old_edit_slide == <<"/", "e", "d", "i", "t", "?", "s", "l", "i", "d", "e", "=", "0", "#", "s", "l", "i", "d", "e", "=">>

OLD_EDIT == "Edit Mode"

OLD_PREVIEW == "Preview Mode"

Clicked(url, result, option) == [url |-> url, result |-> result, option |-> option]

\* the controls are added to the page
AddControls(fn) ==
  /\ copy.fn = "none"
  /\ copy' = [NoCopy EXCEPT !.fn = fn,
                            !.colour = IF fn = "floating" THEN C_success ELSE ""]
  /\ last' = Event("addControls", Top, Undefined, NoMsg, 0)
  /\ UNCHANGED <<pageUi, overlay, apart>>

\* content.js: the click handler to its await
FloatClick(mode) ==
  /\ copy.fn = "floating"
  /\ copy.clicks < MaxCopies
  /\ copy' = [copy EXCEPT !.clicks = @ + 1,
                          !.writes = Append(@, [url |-> BuildSlideUrl_content(href, mode),
                                                option |-> <<mode>>])]
  /\ last' = Event("floatClick", Top, Undefined, NoMsg, copy.clicks + 1)
  /\ UNCHANGED <<pageUi, overlay, apart>>

\* content.js: the handler after writeText has settled
FloatAfterWrite(c, w, ok) ==
  IF ok
  THEN [c EXCEPT !.clipboard = w.url, !.text = S_copied, !.opacity = 1,
                 !.hideTimers = @ + 1, !.latest = Clicked(w.url, "copied", w.option)]
  ELSE [c EXCEPT !.text = S_failed_to_copy, !.colour = C_error, !.opacity = 1,
                 !.hideTimers = @ + 1, !.latest = Clicked(w.url, "failed", w.option)]

FloatWritten(ok) ==
  /\ copy.fn = "floating"
  /\ copy.writes # <<>>
  /\ copy' = FloatAfterWrite([copy EXCEPT !.writes = Tail(@)], Head(copy.writes), ok)
  /\ last' = Event("floatWritten", Top, Undefined, NoMsg, 0)
  /\ UNCHANGED <<pageUi, overlay, apart>>

\* content.js: a timer of 2000 ms hides the status
FloatHide ==
  /\ copy.fn = "floating"
  /\ copy.hideTimers > 0
  /\ copy' = [copy EXCEPT !.opacity = 0, !.hideTimers = @ - 1]
  /\ last' = Event("floatHide", Top, Undefined, NoMsg, 0)
  /\ UNCHANGED <<pageUi, overlay, apart>>

\* content_old.js: showStatusMessage(message, type)
ShowStatusMessage(c, message, type) ==
  [c EXCEPT !.text = message, !.colour = type, !.hideTimers = @ + 1]

\* content_old.js: detectCurrentSlideNumber
DetectCurrentSlideNumber(h) ==
  LET simpleMatch == MatchCapture(h, S_slide_eq, "digit")
  IN IF simpleMatch.found THEN simpleMatch.group ELSE <<"0">>

\* a generateSlideUrl that returns the address when it finds no ID
GenerateSlideUrlReturnsHref(h, mode, slideInput) ==
  LET deckIdMatch == IdMatch(h)
      slideNumber == IF slideInput # <<>> THEN slideInput ELSE DetectCurrentSlideNumber(h)
      base == S_docs \o S_presentation_d \o deckIdMatch.group
  IN IF ~deckIdMatch.found THEN [threw |-> FALSE, message |-> "", url |-> h]
     ELSE [threw |-> FALSE, message |-> "",
           url |-> IF mode = OLD_EDIT THEN base \o S_old_edit_slide \o slideNumber
                   ELSE base \o S_preview_slide \o slideNumber]

\* content_old.js: generateSlideUrl with the values of the mode selector and
\* of the slide number input
GenerateSlideUrl(h, mode, slideInput) ==
  LET deckIdMatch == IdMatch(h)
      slideNumber == IF slideInput # <<>> THEN slideInput ELSE DetectCurrentSlideNumber(h)
      base == S_docs \o S_presentation_d \o deckIdMatch.group
  IN IF ~deckIdMatch.found
     THEN [threw |-> TRUE, message |-> S_unable_to_detect, url |-> Undefined]
     ELSE [threw |-> FALSE, message |-> "",
           url |-> IF mode = OLD_EDIT THEN base \o S_old_edit_slide \o slideNumber
                   ELSE base \o S_preview_slide \o slideNumber]

\* content_old.js: handleCopyButtonClick to its await of writeText, or to
\* the end of its catch block
OldClick(mode, slideInput) ==
  /\ copy.fn = "old"
  /\ copy.clicks < MaxCopies
  /\ LET g == GenerateSlideUrl(href, mode, slideInput)
         c == [copy EXCEPT !.clicks = @ + 1]
     IN copy' = IF g.threw
                THEN [ShowStatusMessage(c, S_unable_to_copy \o g.message, "error")
                        EXCEPT !.latest = Clicked(Undefined, "failed", <<mode>>)]
                ELSE [c EXCEPT !.writes = Append(@, [url |-> g.url, option |-> <<mode>>])]
  /\ last' = Event("oldClick", Top, Undefined, NoMsg, copy.clicks + 1)
  /\ UNCHANGED <<pageUi, overlay, apart>>

\* content_old.js: the handler after writeText has settled
OldAfterWrite(c, w, ok) ==
  IF ok
  THEN [ShowStatusMessage(c, S_link_copied, "success")
          EXCEPT !.clipboard = w.url, !.latest = Clicked(w.url, "copied", w.option)]
  ELSE [ShowStatusMessage(c, S_unable_to_copy \o S_write_refused, "error")
          EXCEPT !.latest = Clicked(w.url, "failed", w.option)]

OldWritten(ok) ==
  /\ copy.fn = "old"
  /\ copy.writes # <<>>
  /\ copy' = OldAfterWrite([copy EXCEPT !.writes = Tail(@)], Head(copy.writes), ok)
  /\ last' = Event("oldWritten", Top, Undefined, NoMsg, 0)
  /\ UNCHANGED <<pageUi, overlay, apart>>

\* content_old.js: a timer of showStatusMessage clears the status
OldClear ==
  /\ copy.fn = "old"
  /\ copy.hideTimers > 0
  /\ copy' = [copy EXCEPT !.text = "", !.colour = "", !.hideTimers = @ - 1]
  /\ last' = Event("oldClear", Top, Undefined, NoMsg, 0)
  /\ UNCHANGED <<pageUi, overlay, apart>>

\* the options injected into the quick-actions menu, as <<mode, exportFormat>>
menuOptions ==
  {<<"EDIT", NoExport>>, <<"DEMO", NoExport>>, <<"PRESENT", NoExport>>,
   <<"MOBILE", NoExport>>, <<NoMode, <<"p", "n", "g">> >>, <<NoMode, <<"p", "d", "f">> >>}

\* a handler that copies whatever the option
AfterOptionUrlCopies(c, url, option) ==
  [c EXCEPT !.writes = Append(@, [url |-> url, option |-> option])]

\* the handler of an option after it has the URL: window.open and the
\* tooltip for an export (the tooltip's text is exportFormat.toUpperCase()
\* and ' export started': kept as the pair), the await of writeText else
AfterOptionUrl(c, url, option) ==
  IF option[2] # NoExport
  THEN [c EXCEPT !.tab = url, !.text = S_export_started,
                 !.latest = Clicked(url, "opened", option)]
  ELSE [c EXCEPT !.writes = Append(@, [url |-> url, option |-> option])]

\* createQuickActionsClickHandler in the main frame: a click on an option
OptionClick(option) ==
  /\ copy.fn = "option"
  /\ copy.clicks < MaxCopies
  /\ copy' = AfterOptionUrl([copy EXCEPT !.clicks = @ + 1],
                            BuildSlideUrl_modes(href, ModeOr(option[1]), option[2],
                                                host.activeSlide), option)
  /\ last' = Event("optionClick", Top, option, NoMsg, copy.clicks + 1)
  /\ UNCHANGED <<pageUi, overlay, apart>>

\* the handler of an option after writeText has settled
OptionAfterWrite(c, w, ok) ==
  IF ok
  THEN [c EXCEPT !.clipboard = w.url, !.text = S_link_copied_tooltip,
                 !.latest = Clicked(w.url, "copied", w.option)]
  ELSE [c EXCEPT !.text = S_error_occurred, !.latest = Clicked(w.url, "failed", w.option)]

OptionWritten(ok) ==
  /\ copy.fn = "option"
  /\ copy.writes # <<>>
  /\ copy' = OptionAfterWrite([copy EXCEPT !.writes = Tail(@)], Head(copy.writes), ok)
  /\ last' = Event("optionWritten", Top, Undefined, NoMsg, 0)
  /\ UNCHANGED <<pageUi, overlay, apart>>

(***************************************************************************)
(* Spec: the share dialog is in a child of the top frame.  That frame      *)
(* issues requests, the top frame answers them, and other scripts post     *)
(* messages to the dialog's frame.                                         *)
(***************************************************************************)
Next ==
  \/ \E f \in Children, ui \in UiInputs, r \in RandomValues :
       RequestUrl(f, ui[1], ui[2], r)
  \/ \E f \in Children : RequestUrlRegister(f)
  \/ \E f \in Children : RequestUrlSend(f)
  \/ \E f \in Children : RequestUrlArm(f)
  \/ \E f \in Children : Timeout(f)
  \/ \E f \in Children : \E m \in BagToSet(inbox[f]) : IframeListener(f, m)
  \/ \E m \in BagToSet(inbox[Top]) : TopListener(m)
  \/ \E f \in Children : \E m \in IframeNoise : Env(f, m, MaxQueue)

Spec == Init /\ [][Next]_vars

(***************************************************************************)
(* ResponderSpec: the top frame alone, under every kind of inbound         *)
(* message and with its address changing between them.                     *)
(***************************************************************************)
ResponderNext ==
  \/ \E m \in TopNoise : Env(Top, m, MaxRequests)
  \/ \E m \in BagToSet(inbox[Top]) : TopListener(m)
  \/ \E h \in Hrefs : Navigate(h)
  \/ \E f \in Iframes : \E m \in BagToSet(inbox[f]) : IframeListener(f, m)

ResponderSpec == Init /\ [][ResponderNext]_vars

(***************************************************************************)
(* NestedSpec: the share dialog can be in any frame below the top frame,   *)
(* the nested one included.                                                *)
(***************************************************************************)
NestedNext ==
  \/ \E f \in Iframes, ui \in UiInputs, r \in RandomValues :
       RequestUrl(f, ui[1], ui[2], r)
  \/ \E f \in Iframes : RequestUrlRegister(f)
  \/ \E f \in Iframes : RequestUrlSend(f)
  \/ \E f \in Iframes : RequestUrlArm(f)
  \/ \E f \in Iframes : Timeout(f)
  \/ \E f \in Iframes : \E m \in BagToSet(inbox[f]) : IframeListener(f, m)
  \/ \E m \in BagToSet(inbox[Top]) : TopListener(m)

NestedSpec == Init /\ [][NestedNext]_vars

(***************************************************************************)
(* ClickSpec: the copy button of the share dialog, in a child of the top   *)
(* frame, is clicked; each click handler awaits its request, writes the    *)
(* clipboard and sets the status line.                                     *)
(***************************************************************************)
ClickNext ==
  \/ \E f \in Children, ui \in UiInputs, r \in RandomValues :
       RequestUrl(f, ui[1], ui[2], r)
  \/ \E f \in Children : RequestUrlRegister(f)
  \/ \E f \in Children : RequestUrlSend(f)
  \/ \E f \in Children : RequestUrlArm(f)
  \/ \E f \in Children : Timeout(f)
  \/ \E f \in Children : \E m \in BagToSet(inbox[f]) : IframeListener(f, m)
  \/ \E m \in BagToSet(inbox[Top]) : TopListener(m)
  \/ \E n \in DOMAIN click : ClickResume(n)
  \/ \E n \in DOMAIN click, ok \in BOOLEAN : ClickWritten(n, ok)
  \/ ClearStatus

ClickSpec == Init /\ [][ClickNext]_vars

(***************************************************************************)
(* MenuSpec: the main frame from the moment Slides is ready, with the      *)
(* user clicking the quick-actions button and the host page changing its   *)
(* menu.                                                                   *)
(***************************************************************************)
MenuNext ==
  \/ MainReady
  \/ DelayedScanTask
  \/ InitDelayedScanTask
  \/ ClickQuickActions
  \/ VerifyTask
  \/ InjectTask
  \/ \E i \in DOMAIN polls : PollTick(i)
  \/ HostMenu

MenuSpec == Init /\ [][MenuNext]_vars

(***************************************************************************)
(* PollSpec: the polling loops that clicks on Share start, on a page whose  *)
(* dialog and 'Copy link' element come and go.                             *)
(***************************************************************************)
PollNext ==
  \/ \E fn \in {"checkForDialog", "checkForCopyLink"} : ShareClick(fn)
  \/ \E i \in DOMAIN polls : PollTick(i)
  \/ HostDialog

PollSpec == Init /\ [][PollNext]_vars

(***************************************************************************)
(* OverlaySpec: the share dialog is opened and removed, Share is clicked,  *)
(* the dialog is detected by the polling loop or by an observer, and the   *)
(* user clicks outside the overlay button.  One polling loop is run.       *)
(***************************************************************************)
OverlayNext ==
  \/ polls = <<>> /\ ShareClick("checkForDialog")
  \/ \E i \in DOMAIN polls : PollTick(i)
  \/ AnalyzeTask
  \/ ShareTextAdded
  \/ DialogOpened
  \/ DialogRemoved
  \/ \E g \in overlay.dismissTimers : DismissArm(g)
  \/ ClickOutside

OverlaySpec == Init /\ [][OverlayNext]_vars

(***************************************************************************)
(* BuilderSpec: buildSlideUrl of each version, called once in a top frame  *)
(* that shows any of the addresses.                                        *)
(***************************************************************************)
BuilderInit ==
  /\ href \in Addresses
  /\ Loaded

\* the values a request can carry as its slideNumber
SlideNumbers ==
  {Undefined, <<>>, <<"5">>, <<"0">>, <<"i", "d", ".", "p", "9">>, Num(<<"0">>), Num(<<"5">>)}

\* buildSlideUrl({ mode, slideNumber }) of the version that answers requests
CallBuildSlideUrl(mode, slideNumber) ==
  /\ built = NoBuilt
  /\ built' = Built("requests", mode, slideNumber, NoExport, NoActiveSlide, IdMatch(href),
                    SlideNumberOr(href, slideNumber), BuildSlideUrl(href, mode, slideNumber))
  /\ UNCHANGED <<overlay, copy, pageUi, reqs, dialogUi, href, inbox, pending, timers, calls, outcome, pc, last>>

\* content.js, click on the button: buildSlideUrl({ mode })
CallBuildSlideUrl_content(mode) ==
  /\ built = NoBuilt
  /\ built' = Built("content", mode, Undefined, NoExport, NoActiveSlide, IdMatch(href),
                    SlideNumber_content(href), BuildSlideUrl_content(href, mode))
  /\ UNCHANGED <<overlay, copy, pageUi, reqs, dialogUi, href, inbox, pending, timers, calls, outcome, pc, last>>

CallBuildSlideUrl_modes(mode, exportFormat, dom) ==
  /\ built = NoBuilt
  /\ built' = Built("modes", mode, Undefined, exportFormat, dom, IdMatch(href),
                    GetCurrentSlideId(href, dom),
                    BuildSlideUrl_modes(href, mode, exportFormat, dom))
  /\ UNCHANGED <<overlay, copy, pageUi, reqs, dialogUi, href, inbox, pending, timers, calls, outcome, pc, last>>

CallBuildSlideUrl_editOnly(mode, dom) ==
  /\ built = NoBuilt
  /\ built' = Built("editOnly", mode, Undefined, NoExport, dom, IdMatch(href),
                    GetCurrentSlideId(href, dom), BuildSlideUrl_editOnly(href, mode, dom))
  /\ UNCHANGED <<overlay, copy, pageUi, reqs, dialogUi, href, inbox, pending, timers, calls, outcome, pc, last>>

BuilderNext ==
  \/ \E mode \in {MODES_EDIT, MODES_PREVIEW, NoMode}, sn \in SlideNumbers :
       CallBuildSlideUrl(mode, sn)
  \/ \E mode \in {"EDIT", "PREVIEW", NoMode} : CallBuildSlideUrl_content(mode)
  \/ \E mode \in {"EDIT", "DEMO", "PRESENT", "MOBILE", NoMode},
        ex \in {NoExport, <<"p", "n", "g">>}, dom \in DomStates :
       CallBuildSlideUrl_modes(mode, ex, dom)
  \/ \E mode \in {"EDIT", NoMode}, dom \in DomStates : CallBuildSlideUrl_editOnly(mode, dom)

BuilderSpec == BuilderInit /\ [][BuilderNext]_vars

(***************************************************************************)
(* SlideSpec: the main frame while the user goes from slide to slide and   *)
(* clicks the copy button of the edit-only version.                        *)
(***************************************************************************)
Href_edit == S_docs \o S_presentation_d \o <<"A", "1", "/", "e", "d", "i", "t">>

SlideHrefs == {Href_edit3, Href_editP7, Href_edit}

SelectedSlides == {NoActiveSlide, ActiveSlide(<<"g", "9">>, <<"s", "1">>)}

SlideNext ==
  \/ MonitorSlideChanges
  \/ \E h \in SlideHrefs : SlideChange(h)
  \/ SlideChangeTask
  \/ \E dom \in SelectedSlides : SlideSelected(dom)
  \/ CallBuildSlideUrl_editOnly("EDIT", host.activeSlide)

SlideSpec == Init /\ [][SlideNext]_vars

(***************************************************************************)
(* FloatSpec, OldSpec, OptionSpec: the copy control of content.js, of      *)
(* content_old.js and of the quick-actions menu, clicked while the address *)
(* changes.                                                                *)
(***************************************************************************)
FloatNext ==
  \/ AddControls("floating")
  \/ \E mode \in {"EDIT", "PREVIEW"} : FloatClick(mode)
  \/ \E ok \in BOOLEAN : FloatWritten(ok)
  \/ FloatHide
  \/ \E h \in Hrefs : Navigate(h)

FloatSpec == Init /\ [][FloatNext]_vars

OldNext ==
  \/ AddControls("old")
  \/ \E mode \in {OLD_EDIT, OLD_PREVIEW}, slideInput \in {<<>>, <<"5">>} :
       OldClick(mode, slideInput)
  \/ \E ok \in BOOLEAN : OldWritten(ok)
  \/ OldClear
  \/ \E h \in Hrefs : Navigate(h)

OldSpec == Init /\ [][OldNext]_vars

OptionNext ==
  \/ AddControls("option")
  \/ \E option \in menuOptions : OptionClick(option)
  \/ \E ok \in BOOLEAN : OptionWritten(ok)
  \/ \E h \in Hrefs : Navigate(h)

OptionSpec == Init /\ [][OptionNext]_vars

(***************************************************************************)
(* Vocabulary of the properties.                                           *)
(***************************************************************************)
Issued == 1..Len(calls)

Range(seq) == {seq[i] : i \in DOMAIN seq}

RegisterAt == CHOOSE i \in DOMAIN RequestUrlFlow : RequestUrlFlow[i] = "register"

\* call n has passed pending.set
Registered(n) ==
  /\ n \in Issued
  /\ pc[calls[n].frame].call # n \/ pc[calls[n].frame].step > RegisterAt

\* the timer of call n was set and has fired
TimerFired(n) ==
  /\ n \in Issued
  /\ pc[calls[n].frame].call # n
  /\ n \notin Range(timers[calls[n].frame])

\* call n waits for its response: registered, timer set and not fired,
\* neither callback invoked
Outstanding(n) ==
  /\ n \in Issued
  /\ pc[calls[n].frame].call # n
  /\ n \in Range(timers[calls[n].frame])
  /\ outcome[n] = <<>>

\* every requestId drawn so far is one the listener accepts and differs
\* from the others
FreshIds ==
  \A a, b \in Issued :
    /\ ~Falsy(calls[a].requestId)
    /\ a # b => calls[a].requestId # calls[b].requestId

Fulfilled(url) == <<[fn |-> "resolve", value |-> url]>>

Rejected == <<[fn |-> "reject", value |-> S_timed_out]>>

(***************************************************************************)
(* C1.  For every request issued by requestUrl exactly one of fulfil and   *)
(* reject happens to the caller, never both and never neither: no call has *)
(* more than one invocation of its callbacks (the event that comes second  *)
(* does nothing), and a call whose timer has fired has exactly one.        *)
(* Does not hold: two calls can draw the same requestId.                   *)
(***************************************************************************)
C1_ExactlyOneSettlement ==
  \A n \in Issued :
    /\ Len(outcome[n]) <= 1
    /\ TimerFired(n) => Len(outcome[n]) = 1

\* the same, for runs in which the requestIds drawn are fresh
C1_WithFreshIds == FreshIds => C1_ExactlyOneSettlement

(***************************************************************************)
(* C2.  When two requests of distinct requestIds are outstanding and the   *)
(* response to the second is delivered first, the second caller alone is   *)
(* fulfilled, with the URL of that response, and the first stays in the    *)
(* pending table, unsettled.                                               *)
(* Does not hold: the second requestId can be the empty string, which the  *)
(* listener takes for a missing requestId.                                 *)
(***************************************************************************)
SecondAnsweredFirst(a, b) ==
  /\ a < b
  /\ calls[a].frame = calls[b].frame
  /\ calls[a].requestId # calls[b].requestId
  /\ Outstanding(a) /\ Outstanding(b)
  /\ last'.kind = "iframeMessage" /\ last'.frame = calls[b].frame
  /\ BagIn(last'.msg, inbox[calls[b].frame])
  /\ last'.msg.type = T_RESPONSE
  /\ last'.msg.requestId = calls[b].requestId

OnlySecondFulfilled(a, b) ==
  /\ outcome'[b] = Fulfilled(last'.msg.url)
  /\ outcome'[a] = <<>>
  /\ MapHas(pending'[calls[a].frame], calls[a].requestId)
  /\ pending'[calls[a].frame][calls[a].requestId] = a
  /\ \A n \in Issued \ {b} : outcome'[n] = outcome[n]

C2_SecondResponseFirst ==
  [][\A a, b \in Issued : SecondAnsweredFirst(a, b) => OnlySecondFulfilled(a, b)]_vars

\* the same, for runs in which the requestIds drawn are fresh
C2_WithFreshIds ==
  [][\A a, b \in Issued :
       FreshIds /\ SecondAnsweredFirst(a, b) => OnlySecondFulfilled(a, b)]_vars

(***************************************************************************)
(* C3.  Every request issued by requestUrl settles: once the timer of a    *)
(* request has fired, its caller is fulfilled or rejected, so that no      *)
(* caller waits after its timer.                                           *)
(* Does not hold: the timer of an earlier call of the same requestId       *)
(* removes the entry of a later one, whose own timer then does nothing.    *)
(***************************************************************************)
C3_SettledOnceTimerFired ==
  \A n \in Issued : TimerFired(n) => PromiseState(outcome[n]) # "pending"

\* the same, for runs in which the requestIds drawn are fresh
C3_WithFreshIds == FreshIds => C3_SettledOnceTimerFired

(***************************************************************************)
(* C4.  A response that is delivered after its request has timed out       *)
(* fulfils nobody and leaves nothing behind: right after the timer of a    *)
(* request has fired the pending table has no entry for its requestId; a   *)
(* caller that was rejected has the rejection as its only invocation, and  *)
(* no entry of the table belongs to it, whatever is delivered afterwards;  *)
(* and a response the listener accepts leaves no entry for its requestId.  *)
(***************************************************************************)
C4_LateResponse ==
  /\ last.kind = "timeout" => ~MapHas(pending[last.frame], last.id)
  /\ \A n \in Issued :
       PromiseState(outcome[n]) = "rejected" =>
         /\ outcome[n] = Rejected
         /\ \A id \in DOMAIN pending[calls[n].frame] : pending[calls[n].frame][id] # n
  /\ last.kind = "iframeMessage" /\ ~IframeIgnores(last.msg) =>
       ~MapHas(pending[last.frame], last.id)

\* a response of the top frame is delivered to a caller rejected before
C4_Witness ==
  /\ last.kind = "iframeMessage" /\ ~IframeIgnores(last.msg)
  /\ last.msg.url # S_spurious
  /\ last.call = 0
  /\ \E n \in Issued :
       /\ calls[n].requestId = last.id
       /\ TimerFired(n)
       /\ outcome[n] = Rejected

(***************************************************************************)
(* C5.  When two responses of the same requestId are delivered one after   *)
(* the other, the second changes neither the pending table nor the outcome *)
(* of any caller, and the caller the first one fulfilled has that          *)
(* fulfilment as its only invocation.                                      *)
(***************************************************************************)
C5_DuplicateResponse ==
  [][last'.kind = "iframeMessage" /\ last'.again /\ BagIn(last'.msg, inbox[last'.frame]) =>
       /\ pending' = pending
       /\ outcome' = outcome
       /\ last'.call = 0
       /\ last'.first # 0 => outcome'[last'.first] = Fulfilled(last.msg.url)]_vars

\* the second of two responses has been delivered, the first fulfilled a caller
C5_Witness ==
  /\ last.kind = "iframeMessage" /\ last.again
  /\ last.first # 0
  /\ outcome[last.first] = Fulfilled(last.msg.url)

(***************************************************************************)
(* C6.  A response whose requestId is not a key of the pending table of    *)
(* the frame it is delivered to (never issued, or missing) is dropped: no  *)
(* caller is settled and the table is unchanged.                           *)
(***************************************************************************)
C6_UnmatchedDropped ==
  [][/\ last'.kind = "iframeMessage"
     /\ BagIn(last'.msg, inbox[last'.frame])
     /\ last'.msg.type = T_RESPONSE
     /\ ~MapHas(pending[last'.frame], last'.msg.requestId)
     => /\ pending' = pending
        /\ outcome' = outcome
        /\ last'.call = 0]_vars

\* a response of a requestId never issued was delivered while a request
\* was pending
C6_Witness ==
  /\ last.kind = "iframeMessage"
  /\ last.msg.type = T_RESPONSE
  /\ ~Falsy(last.msg.requestId)
  /\ \A n \in Issued : calls[n].requestId # last.msg.requestId
  /\ \E n \in Issued : Outstanding(n) /\ MapHas(pending[last.frame], calls[n].requestId)

(***************************************************************************)
(* C7.  requestUrl records the entry of a requestId before it sends the    *)
(* request of that requestId: right after the send the entry is in the     *)
(* table, and every request in flight to the top frame, and every response *)
(* of the top frame in flight, has the requestId of a call that has        *)
(* registered.                                                             *)
(***************************************************************************)
C7_RegisterBeforeSend ==
  /\ last.kind = "send" =>
       /\ MapHas(pending[last.frame], last.id)
       /\ pending[last.frame][last.id] = last.call
  /\ \A m \in BagToSet(inbox[Top]) :
       m.type = T_REQUEST /\ m.source \in Iframes =>
         \E n \in Issued : Registered(n) /\ calls[n].requestId = m.requestId
  /\ \A f \in Iframes : \A m \in BagToSet(inbox[f]) :
       m.type = T_RESPONSE /\ m.url # S_spurious =>
         \E n \in Issued : Registered(n) /\ calls[n].requestId = m.requestId

\* the request has just been sent and is in flight
C7_Witness ==
  /\ last.kind = "send"
  /\ BagIn(last.msg, inbox[Top])
  /\ Registered(last.call)

(***************************************************************************)
(* C8.  The keys of the pending table of a frame are exactly the           *)
(* requestIds of the requests the frame has issued and that have not       *)
(* settled.                                                                *)
(* Does not hold: the timer of a call removes the entry of another call of *)
(* the same requestId.                                                     *)
(***************************************************************************)
C8_KeysAreUnsettledIds ==
  \A f \in Iframes :
    DOMAIN pending[f] =
      {calls[n].requestId :
         n \in {k \in Issued : calls[k].frame = f /\ Registered(k) /\ outcome[k] = <<>>}}

\* the same, for runs in which the requestIds drawn are fresh
C8_WithFreshIds == FreshIds => C8_KeysAreUnsettledIds

(***************************************************************************)
(* C9.  For a valid request the top frame posts, to the frame the request  *)
(* came from, a response of the same requestId whose URL is buildSlideUrl  *)
(* of the top frame's address at that moment and of the request's mode and *)
(* slideNumber.                                                            *)
(***************************************************************************)
TopHandles(m) ==
  /\ last'.kind = "topMessage" /\ last'.msg = m
  /\ BagIn(m, inbox[Top])
  /\ m.type = T_REQUEST

ExpectedResponse(h, m) ==
  [type |-> T_RESPONSE, mode |-> NoMode, slideNumber |-> Undefined,
   requestId |-> m.requestId, url |-> BuildSlideUrl(h, m.mode, m.slideNumber),
   source |-> Top, origin |-> FrameOrigin(Top)]

Answered(m) ==
  /\ m.source \in Frames
  /\ inbox' = [Take(inbox, Top, m) EXCEPT
                 ![m.source] = @ (+) SetToBag({ExpectedResponse(href, m)})]

\* as the claim is written: for every valid request
C9_EveryRequestAnswered ==
  [][\A m \in BagToSet(inbox[Top]) : TopHandles(m) => Answered(m)]_vars

\* for every valid request whose event has a source; nothing is posted
\* for one that has none
C9_RequestWithSourceAnswered ==
  [][\A m \in BagToSet(inbox[Top]) :
       TopHandles(m) =>
         IF m.source # NoFrame THEN Answered(m) ELSE inbox' = Take(inbox, Top, m)]_vars

\* a request for the preview link was answered after the address changed
C9_Witness ==
  /\ last.kind = "topMessage" /\ last.msg.type = T_REQUEST
  /\ last.msg.source \in Iframes
  /\ last.msg.mode = MODES_PREVIEW
  /\ href # Href_edit3
  /\ BagIn(ExpectedResponse(href, last.msg), inbox[last.msg.source])

(***************************************************************************)
(* C10.  The top frame keeps nothing of a request: handling a request      *)
(* adds exactly one message to the queue of the frame it came from, a      *)
(* response of that request, whatever else is in flight, and changes       *)
(* nothing but the queues.                                                 *)
(***************************************************************************)
OneResponse(m) ==
  /\ m.source \in Frames
  /\ BagCardinality(inbox'[m.source]) =
       BagCardinality(Take(inbox, Top, m)[m.source]) + 1
  /\ \E r \in BagToSet(inbox'[m.source]) :
       /\ r.type = T_RESPONSE /\ r.requestId = m.requestId
       /\ CopiesIn(r, inbox'[m.source]) = CopiesIn(r, Take(inbox, Top, m)[m.source]) + 1
  /\ \A f \in Frames \ {m.source} : inbox'[f] = Take(inbox, Top, m)[f]
  /\ UNCHANGED <<overlay, copy, href, pending, timers, calls, outcome, pc>>

\* as the claim is written: every request that arrives
C10_EveryRequestOneResponse ==
  [][\A m \in BagToSet(inbox[Top]) : TopHandles(m) => OneResponse(m)]_vars

\* every request whose event has a source
C10_RequestWithSourceOneResponse ==
  [][\A m \in BagToSet(inbox[Top]) :
       TopHandles(m) /\ m.source # NoFrame => OneResponse(m)]_vars

\* a request was answered while the response to another was still in flight
C10_Witness ==
  /\ last.kind = "topMessage" /\ last.msg.type = T_REQUEST
  /\ last.msg.source \in Iframes
  /\ BagCardinality(inbox[last.msg.source]) >= 2
  /\ \E r \in BagToSet(inbox[last.msg.source]) :
       r.type = T_RESPONSE /\ r.requestId # last.msg.requestId

(***************************************************************************)
(* C11.  A message that is no request (an event without data, or data of   *)
(* another type) is discarded by the top frame: handling it posts nothing  *)
(* and changes nothing but the removal of the message from the queue.      *)
(***************************************************************************)
C11_NonRequestDiscarded ==
  [][\A m \in BagToSet(inbox[Top]) :
       /\ last'.kind = "topMessage" /\ last'.msg = m
       /\ m.type # T_REQUEST
       => /\ inbox' = Take(inbox, Top, m)
          /\ UNCHANGED <<overlay, copy, href, pending, timers, calls, outcome, pc>>]_vars

\* a message of another protocol, with a source to answer to, was handled
C11_Witness ==
  /\ last.kind = "topMessage"
  /\ last.msg.type = T_OTHER
  /\ last.msg.source \in Iframes
  /\ InFlight = 0

(***************************************************************************)
(* C13.  Every requestId requestUrl generates is fresh: it is not a key of *)
(* the pending table when it is drawn, and it is a value the response      *)
(* listener accepts.                                                       *)
(* Does not hold: Math.random() can return 0, whose requestId is the empty *)
(* string, and can return the same number twice.                           *)
(***************************************************************************)
C13_RequestIdFresh ==
  last.kind = "requestUrl" =>
    /\ ~Falsy(last.id)
    /\ ~MapHas(pending[last.frame], last.id)

(***************************************************************************)
(* C20.  The target origin of the responses the top frame posts.           *)
(***************************************************************************)
TopPosted ==
  /\ last.kind = "topMessage"
  /\ last.targetOrigin # NoPost

\* as the claim is written: every response is posted with the wildcard
\* target origin
C20_ResponseWildcard == TopPosted => last.targetOrigin = "*"

\* every response is posted with the origin of the request event as its
\* target origin, which is no wildcard; the wildcard is the target origin
\* of the requests
C20_ResponseToRequestOrigin ==
  /\ TopPosted =>
       /\ last.targetOrigin = last.msg.origin
       /\ last.targetOrigin # "*"
  /\ last.kind = "send" => last.targetOrigin = "*"

\* the request of a requestUrl call has been answered
C20_Witness ==
  /\ TopPosted
  /\ last.msg.source \in Iframes
  /\ \E n \in Issued : RequestMsg(calls[n].frame, calls[n]) = last.msg
  /\ \E r \in BagToSet(inbox[last.msg.source]) :
       r.type = T_RESPONSE /\ r.requestId = last.msg.requestId /\ r.source = Top

(***************************************************************************)
(* C12.  Every request a frame issues is sent to the top frame, which runs *)
(* the responder, wherever the frame is in the frame tree: right after the *)
(* send the request is in the queue of the top frame.                      *)
(* Does not hold: the request is posted to window.parent, which for a      *)
(* frame nested deeper is not the top frame.                               *)
(***************************************************************************)
C12_RequestSentToTop ==
  last.kind = "send" => BagIn(last.msg, inbox[Top])

\* the same, for the requests of the children of the top frame
C12_FromChildOfTop ==
  last.kind = "send" /\ last.frame \in Children => BagIn(last.msg, inbox[Top])

(***************************************************************************)
(* Vocabulary of the properties of buildSlideUrl.                          *)
(***************************************************************************)
Called == built.fn # "none"

\* the address has /presentation/d/ followed by a character of an ID
HasIdPattern(h) ==
  \E i \in 1..Len(h) :
    /\ MatchAt(h, i, S_presentation_d)
    /\ i + Len(S_presentation_d) <= Len(h)
    /\ h[i + Len(S_presentation_d)] # "/"

\* the characters of s before its first slash
UntilSlash(s) ==
  LET slashes == {i \in 1..Len(s) : s[i] = "/"}
  IN IF slashes = {} THEN s
     ELSE SubSeq(s, 1, (CHOOSE i \in slashes : \A j \in slashes : i <= j) - 1)

\* a slideNumber was given with the request
Supplied(x) == x # Undefined /\ x # <<>>

\* the slide a fragment names
NamesSlide(fr) == fr.slideId # <<>> \/ fr.index # <<>>

\* the slide of a fragment in the order ID, number, '0'
ExpectedSlide(fr) ==
  IF fr.slideId # <<>> THEN fr.slideId
  ELSE IF fr.index # <<>> THEN fr.index
  ELSE <<"0">>

(***************************************************************************)
(* C14.  For an address without the presentation-ID pattern buildSlideUrl  *)
(* returns the address itself, in every version, for every mode, slide     *)
(* override, export format and page.                                       *)
(***************************************************************************)
C14_UnchangedWithoutId ==
  Called /\ ~HasIdPattern(href) => built.url = href

\* the version that answers requests was given a preview mode and a slide
\* for an address that has /d/ but not /presentation/d/
C14_Witness ==
  /\ built.fn = "requests"
  /\ built.mode = MODES_PREVIEW
  /\ built.slideNumber = <<"5">>
  /\ \E o \in Origins, d \in DeckIds, a \in AfterId, fr \in Fragments :
       NamesSlide(fr) /\ href = Address(o, S_presentation_u_d, d, a, fr)
  /\ built.url = href

(***************************************************************************)
(* C15.  The presentation ID buildSlideUrl extracts.                       *)
(***************************************************************************)
\* as the claim is written: the ID of any address that has /d/<ID>/
C15_IdAfterAnyD ==
  Called =>
    \A o \in Origins, p \in IdPaths, d \in DeckIds, a \in AfterId \ {<<>>}, fr \in Fragments :
      href = Address(o, p, d, a, fr) =>
        built.idMatch = [found |-> TRUE, group |-> d]

\* the ID of an address that has /presentation/d/<ID>/, whatever follows
\* it; the URL built carries it between /presentation/d/ and a slash
C15_IdAfterPresentationD ==
  Called =>
    \A o \in Origins, d \in DeckIds, a \in AfterId \ {<<>>}, fr \in Fragments :
      href = Address(o, S_presentation_d, d, a, fr) =>
        /\ built.idMatch = [found |-> TRUE, group |-> d]
        /\ LET pre == S_docs \o S_presentation_d \o d \o <<"/">>
           IN Len(built.url) > Len(pre) /\ SubSeq(built.url, 1, Len(pre)) = pre

\* an ID followed by path segments, a query string and a fragment
C15_Witness ==
  /\ Called
  /\ \E fr \in Fragments :
       /\ fr.slideId = <<"g", "1", "_", "0">>
       /\ href = Address(S_docs, S_presentation_d, <<"A", "B", "C", "1", "2", "3">>,
                         <<"/", "e", "d", "i", "t", "/", "x", "?", "y", "=", "1">>, fr)
  /\ built.idMatch.group = <<"A", "B", "C", "1", "2", "3">>

(***************************************************************************)
(* C16.  In the version that answers requests, a slide override that is    *)
(* supplied is the slide of the URL built, whatever its value and whatever *)
(* the fragment; without an override the slide a fragment names is the     *)
(* slide of the URL built.                                                 *)
(* Does not hold: the override 0 (a number) is taken for no override, and  *)
(* a fragment #slide=id.<X> is not read.                                   *)
(***************************************************************************)
Template(mode, d, slide) ==
  S_docs \o S_presentation_d \o d
    \o (IF mode = MODES_PREVIEW THEN S_preview_slide ELSE S_edit_slide) \o slide

C16_OverrideWins ==
  built.fn = "requests" =>
    \A o \in Origins, d \in DeckIds, a \in AfterId \ {<<>>}, fr \in Fragments :
      href = Address(o, S_presentation_d, d, a, fr) =>
        /\ Supplied(built.slideNumber) =>
             built.url = Template(built.mode, d, ToJsString(built.slideNumber))
        /\ ~Supplied(built.slideNumber) /\ NamesSlide(fr) =>
             /\ built.slide \in {ExpectedSlide(fr), <<"i", "d", ".">> \o ExpectedSlide(fr)}
             /\ built.url = Template(built.mode, d, built.slide)

\* what holds: an override that is not falsy wins, and without one the
\* number of a fragment #slide=<N> is used
C16_TruthyOverrideOrIndex ==
  built.fn = "requests" =>
    \A o \in Origins, d \in DeckIds, a \in AfterId \ {<<>>}, fr \in Fragments :
      href = Address(o, S_presentation_d, d, a, fr) =>
        /\ ~Falsy(built.slideNumber) =>
             built.url = Template(built.mode, d, ToJsString(built.slideNumber))
        /\ Falsy(built.slideNumber) /\ fr.index # <<>> =>
             built.url = Template(built.mode, d, fr.index)

(***************************************************************************)
(* C17.  Without a slide supplied, buildSlideUrl settles on the ID of a    *)
(* fragment #slide=id.<X>, else on the number of a fragment #slide=<N>,    *)
(* else on '0'.                                                            *)
(* Does not hold: the version that answers requests does not read          *)
(* #slide=id.<X>, and getCurrentSlideId asks the page before it falls back *)
(* to '0'.                                                                 *)
(***************************************************************************)
C17_ResolutionOrder ==
  Called /\ built.idMatch.found /\ ~Supplied(built.slideNumber) =>
    \A o \in Origins, p \in IdPaths, d \in DeckIds, a \in AfterId, fr \in Fragments :
      href = Address(o, p, d, a, fr) => built.slide = ExpectedSlide(fr)

\* what holds: the order is that of content.js, and of getCurrentSlideId on
\* a page without a selected element
C17_OrderOfContent ==
  /\ built.idMatch.found
  /\ \/ built.fn = "content"
     \/ built.fn \in {"modes", "editOnly"} /\ ~built.dom.selected
  => \A o \in Origins, p \in IdPaths, d \in DeckIds, a \in AfterId, fr \in Fragments :
       href = Address(o, p, d, a, fr) => built.slide = ExpectedSlide(fr)

(***************************************************************************)
(* C18.  For https://docs.example.com/presentation/d/ABC123/edit#slide=id.p7 *)
(* and no override buildSlideUrl returns that address in edit mode and     *)
(* https://docs.example.com/presentation/d/ABC123/preview?rm=minimal&slide=id.p7 *)
(* in preview mode.                                                        *)
(* Does not hold: the URL built is of docs.google.com, and the version     *)
(* that answers requests builds it for slide 0.                            *)
(***************************************************************************)
Href_scenario ==
  S_example \o S_presentation_d \o <<"A", "B", "C", "1", "2", "3">>
    \o <<"/", "e", "d", "i", "t">> \o S_slide_id \o <<".", "p", "7">>

C18_Scenario ==
  /\ href = Href_scenario
  /\ built.fn \in {"requests", "content"}
  /\ ~Supplied(built.slideNumber)
  => IF built.mode \in {MODES_PREVIEW, "PREVIEW"}
     THEN built.url = S_example \o S_presentation_d \o <<"A", "B", "C", "1", "2", "3">>
                        \o S_preview_slide_id \o <<"p", "7">>
     ELSE built.url = Href_scenario

\* what holds: content.js returns the two URLs with docs.google.com as host
C18_ContentOnGoogleHost ==
  href = Href_scenario /\ built.fn = "content" =>
    IF built.mode = "PREVIEW"
    THEN built.url = S_docs \o S_presentation_d \o <<"A", "B", "C", "1", "2", "3">>
                       \o S_preview_slide_id \o <<"p", "7">>
    ELSE built.url = S_docs \o S_presentation_d \o <<"A", "B", "C", "1", "2", "3">>
                       \o <<"/", "e", "d", "i", "t">> \o S_slide_id \o <<".", "p", "7">>

(***************************************************************************)
(* C19.  In edit mode, when a presentation ID can be extracted from the    *)
(* address, buildSlideUrl of content.js and of the two versions with       *)
(* getCurrentSlideId returns                                               *)
(* https://docs.google.com/presentation/d/<ID>/edit#slide=id.<SLIDE>,      *)
(* <ID> the characters between /presentation/d/ and the next slash and     *)
(* <SLIDE> the current slide: that of the fragment, else that of the page, *)
(* else 0.                                                                 *)
(***************************************************************************)
EditMode ==
  /\ built.fn \in {"content", "modes", "editOnly"}
  /\ built.mode \in {"EDIT", NoMode}
  /\ built.exportFormat = NoExport

CurrentSlide(fr) ==
  IF NamesSlide(fr) THEN ExpectedSlide(fr)
  ELSE IF built.dom.selected /\ built.dom.dataSlideId # <<>> THEN built.dom.dataSlideId
  ELSE IF built.dom.selected /\ built.dom.id # <<>> THEN built.dom.id
  ELSE <<"0">>

C22_TimerArmedOnce ==
  [][\A f \in Children :
       \/ timers'[f] = timers[f] /\ last'.kind \notin {"arm", "timeout"}
       \/ /\ last'.kind = "arm" /\ last'.frame = f
          /\ AtStep(f, "arm")
          /\ pc[f].call \notin Range(timers[f])
          /\ timers'[f] = Append(timers[f], pc[f].call)
       \/ /\ last'.kind = "timeout" /\ last'.frame = f
          /\ timers[f] # <<>>
          /\ timers'[f] = Tail(timers[f])
          /\ LET n == Head(timers[f])
                 id == calls[n].requestId
             IN IF MapHas(pending[f], id)
                THEN /\ outcome' = [outcome EXCEPT ![n] = Append(@, Rejected[1])]
                     /\ pending'[f] = MapDelete(pending[f], id)
                ELSE outcome' = outcome /\ pending' = pending
       \/ timers'[f] = timers[f] /\ last'.frame # f]_vars

\* the timer of a fulfilled request has just fired and changed nothing,
\* while the timer of a request issued after it is still set
C22_Witness ==
  /\ last.kind = "timeout"
  /\ Len(outcome[last.call]) = 1
  /\ PromiseState(outcome[last.call]) = "fulfilled"
  /\ \E n \in Issued :
       /\ n > last.call
       /\ n \in Range(timers[calls[n].frame])
       /\ calls[n].requestId # calls[last.call].requestId

(***************************************************************************)
(* C23.  The callback of every polling loop runs at most maxAttempts       *)
(* times: no loop has run more often, and a loop that has run that often   *)
(* has no timer set.                                                       *)
(* Does not hold: checkForCopyLink of content_old.js sets its timer again  *)
(* whenever it has not found its element.                                  *)
(***************************************************************************)
C23_PollsBounded ==
  \A i \in DOMAIN polls :
    /\ polls[i].attempts <= maxAttempts
    /\ polls[i].scheduled => polls[i].attempts < maxAttempts

\* what holds: the loops of waitForQuickActionsMenu and waitForShareDialog
\* stop after maxAttempts runs, or when they have found their element
C23_CountedLoopsBounded ==
  \A i \in DOMAIN polls :
    polls[i].fn \in {"checkForMenu", "checkForDialog"} =>
      /\ polls[i].attempts <= maxAttempts
      /\ polls[i].scheduled => polls[i].attempts < maxAttempts /\ ~polls[i].found

(***************************************************************************)
(* Vocabulary of the properties of the quick-actions menu.                 *)
(***************************************************************************)
\* no timer of the script is set
Settled == tasks = EmptyBag /\ \A i \in DOMAIN polls : ~polls[i].scheduled

\* the quick-actions button was clicked and the menu is shown with its
\* 'Copy link' item
MenuOpenedByClick == host.clicked /\ host.menu = "visible" /\ host.copyLink

(***************************************************************************)
(* C24.  When the quick-actions button was clicked and the menu is shown   *)
(* with a 'Copy link' item, the menu has the 'Copy current slide link'     *)
(* option once the timers the script has set have run.                     *)
(* Does not hold: the click listener acts on one click only               *)
(* (fallbackCheckDone), and nothing injects after it.                      *)
(***************************************************************************)
C24_ClickGetsOption ==
  MenuOpenedByClick /\ Settled => host.options >= 1

(***************************************************************************)
(* C25.  The quick-actions menu never has more than one element with id    *)
(* current-slide-copy-option, whatever the order in which the scans, the   *)
(* polling loop's injection and the fallback verification run.             *)
(***************************************************************************)
C25_AtMostOneOption == host.options <= 1

\* the injection of the polling loop has just run, after the scan at
\* initialisation and both delayed scans, and the menu has the option
C25_Witness ==
  /\ last.kind = "inject"
  /\ state.isReady
  /\ ~BagIn("delayedScan", tasks) /\ ~BagIn("initDelayedScan", tasks)
  /\ \E i \in DOMAIN polls : polls[i].fn = "checkForMenu" /\ polls[i].found
  /\ host.options = 1

(***************************************************************************)
(* C26.  The fallback check (the start of the polling loop by a click, or  *)
(* a run of the verification) is executed at most once.                    *)
(* Does not hold: the verification branch sets fallbackCheckDone in its    *)
(* timer, not at the click, so every click before the timer runs sets      *)
(* another timer.                                                          *)
(***************************************************************************)
C26_FallbackOnce == fallbackChecks <= 1

\* what holds: the polling loop is started at most once, and not at all
\* when a verification has been set
C26_PollingStartedOnce ==
  /\ Len(polls) <= 1
  /\ polls # <<>> => fallbackChecks = 1 /\ ~BagIn("verify", tasks)

(***************************************************************************)
(* C27.  The URL a click on the copy button builds is that of the slide    *)
(* the address names at that moment (of the selected element of the page   *)
(* when the address names none), whatever state.currentSlideId holds.      *)
(***************************************************************************)
C27_BuiltFromAddress ==
  [][built' # built =>
       \A o \in Origins, d \in DeckIds, a \in AfterId, fr \in Fragments :
         href = Address(o, S_presentation_d, d, a, fr) =>
           LET slide == IF NamesSlide(fr) THEN ExpectedSlide(fr)
                        ELSE IF host.activeSlide.selected THEN host.activeSlide.dataSlideId
                        ELSE <<"0">>
           IN built'.url = S_docs \o S_presentation_d \o d
                             \o <<"/", "e", "d", "i", "t", "#", "s", "l", "i", "d", "e", "=", "i", "d", ".">>
                             \o slide]_vars

\* the button was clicked while the timer of a slide change was set and
\* state.currentSlideId was that of another slide
C27_Witness ==
  /\ built.fn = "editOnly"
  /\ BagIn("slideChange", tasks)
  /\ state.currentSlideId \notin {Undefined, built.slide}
  /\ href = Href_edit3
  /\ built.slide = <<"3">>

(***************************************************************************)
(* The protocol without requestId.                                         *)
(***************************************************************************)
Resolved(r) == r.invocations # <<>> /\ Head(r.invocations).fn = "resolve"

OwnUrl(r) == BuildSlideUrl_modes(href, r.mode, r.exportFormat, host.activeSlide)

\* C28: with several requests outstanding, each caller is resolved only
\* with the URL the main frame built for its own mode and exportFormat.
C28_OwnResponseOnly ==
  \A n \in DOMAIN reqs : Resolved(reqs[n]) => Head(reqs[n].invocations).value = OwnUrl(reqs[n])

\* a single request at a time is resolved with its own URL
C28_AloneOwnResponse ==
  (Len(reqs) = 1 /\ Resolved(reqs[1])) => Head(reqs[1].invocations).value = OwnUrl(reqs[1])

\* C29: once a request has settled, by a URL response, an error response or
\* the 5-second timeout, neither its timer nor its message listener remains,
\* so that a later SLIDE_URL_RESPONSE runs no code of the request.
C29_SettledReleasesBoth ==
  \A n \in DOMAIN reqs :
    reqs[n].invocations # <<>> => ~reqs[n].timer /\ ~reqs[n].listening

\* a request settled by a response has released both
C29_ResponseReleasesBoth ==
  \A n \in DOMAIN reqs :
    (reqs[n].invocations # <<>> /\ Head(reqs[n].invocations).value # S_timeout_waiting)
      => ~reqs[n].timer /\ ~reqs[n].listening

\* the catch block has answered the request of the last event
ErrorAnswered ==
  BagIn(FrameMsg(T_URL_RESPONSE, NoMode, NoExport, href, S_build_failed, Top),
        inbox[last.msg.source])

\* a listener of request n has just run on a response that carries an error
RanOnError(n) ==
  /\ last'.kind = "frameMessage"
  /\ last'.msg.type = T_URL_RESPONSE
  /\ last'.msg.error # NoError
  /\ n \in DOMAIN reqs
  /\ reqs[n] # reqs'[n]

C31_AtMostOneOverlay == Cardinality(overlay.buttons) <= 1

\* a button that was in the document has been replaced by a new injection
C31_Witness ==
  /\ overlay.replaced >= 1
  /\ Cardinality(overlay.buttons) = 1
  /\ overlay.dismissListeners # {}

\* C32: while no share dialog is in the document, no overlay button is in
\* it either, also when the dialog is removed during the 200 ms between
\* its detection and the injection.
C32_NoOverlayWithoutDialog == ~host.dialog => overlay.buttons = {}

\* the same, as long as no injection was made for a dialog that was gone
C32_RemovedWithDialog ==
  (~host.dialog /\ overlay.late = 0) => overlay.buttons = {}


(***************************************************************************)
(* The roles of the frames.                                                *)
(***************************************************************************)
RequesterKinds == {"requestUrl", "register", "send", "arm", "timeout", "iframeMessage"}

\* the top frame has issued no request, has no pending table and no timer,
\* and has run no step of the requester; no request in a queue is from it
\* and every response in a queue is
RolesKept ==
  /\ \A n \in DOMAIN calls : ~IsTop(calls[n].frame)
  /\ Top \notin DOMAIN pending
  /\ Top \notin DOMAIN timers
  /\ last.kind \in RequesterKinds => ~IsTop(last.frame)
  /\ last.kind = "topMessage" => IsTop(last.frame)
  /\ \A f \in Frames : \A m \in BagToSet(inbox[f]) :
       /\ m.type = T_REQUEST => ~IsTop(m.source)
       /\ m.type = T_RESPONSE => IsTop(m.source)

\* a step of a frame that is not the top frame sends no response, and a
\* step of the top frame issues no request and starts no click handler
RoleStep ==
  /\ ~IsTop(last'.frame) =>
       \A f \in Frames : \A m \in BagToSet(inbox'[f]) :
         m.type = T_RESPONSE => CopiesIn(m, inbox'[f]) <= CopiesIn(m, inbox[f])
  /\ IsTop(last'.frame) =>
       /\ calls' = calls /\ pending' = pending /\ click' = click
       /\ \A m \in BagToSet(inbox'[Top]) :
            m.type = T_REQUEST => CopiesIn(m, inbox'[Top]) <= CopiesIn(m, inbox[Top])

\* C33: a frame plays one role for its whole life: the top frame only
\* answers requests (it issues none, keeps no pending table and starts no
\* click handler) and every other frame only issues requests (it never
\* answers a REQUEST_SLIDE_URL message it receives).
C33_OneRolePerFrame == []RolesKept /\ [][RoleStep]_vars

\* the top frame has answered a request of its child, and the child has
\* received a request of the frame nested in it and has sent nothing
C33_Witness ==
  /\ last.kind = "iframeMessage"
  /\ last.msg.type = T_REQUEST
  /\ ~IsTop(last.frame)
  /\ \A f \in Frames : inbox[f] = EmptyBag
  /\ \E n \in DOMAIN calls :
       calls[n].frame = last.frame /\ PromiseState(outcome[n]) = "fulfilled"


(***************************************************************************)
(* The URL returned, taken as the address.                                 *)
(***************************************************************************)
\* an edit-mode call of content.js or of the edit-only version has returned
EditBuilt ==
  /\ built.fn \in {"content", "editOnly"}
  /\ built.mode \in {"EDIT", NoMode}

\* the same call with the returned URL as location.href
Rebuilt ==
  IF built.fn = "content" THEN BuildSlideUrl_content(built.url, built.mode)
  ELSE BuildSlideUrl_editOnly(built.url, built.mode, built.dom)

Has(s, c) == \E i \in 1..Len(s) : s[i] = c

\* C36: an edit-mode URL returned by buildSlideUrl, taken as the current
\* address, is returned again, for every presentation ID and every slide
\* identifier without '&'.
C36_Idempotent ==
  (EditBuilt /\ ~Has(built.slide, "&")) => Rebuilt = built.url

\* C36, amended: the same when the presentation ID read from the address
\* has no '#', that is when the ID is followed by a slash or by nothing.
C36_IdempotentWithoutHash ==
  (EditBuilt /\ ~Has(built.slide, "&") /\ ~Has(built.idMatch.group, "#")) =>
    Rebuilt = built.url

\* the slide was read from the page, and the URL returned is a new address
\* that names it
C36_Witness ==
  /\ EditBuilt
  /\ built.fn = "editOnly"
  /\ built.idMatch.found
  /\ ~Has(built.idMatch.group, "#")
  /\ built.slide = <<"g", "9">>
  /\ built.url # href
  /\ Rebuilt = built.url

(***************************************************************************)
(* The copy controls.                                                      *)
(***************************************************************************)
\* every click made has run to its end
LatestDone == copy.writes = <<>> /\ copy.latest.result # "none"

\* C37: on the floating button, after any successful and failed copies, the
\* status shows 'Copied!' in the success colour after a successful copy and
\* 'Failed to copy' in the error colour after a failed one.
C37_ColourMatchesOutcome ==
  (copy.fn = "floating" /\ LatestDone) =>
    IF copy.latest.result = "copied"
    THEN copy.text = S_copied /\ copy.colour = C_success
    ELSE copy.text = S_failed_to_copy /\ copy.colour = C_error

\* the text matches the latest outcome, and so does the colour of a failure
C37_TextMatchesOutcome ==
  (copy.fn = "floating" /\ LatestDone) =>
    IF copy.latest.result = "copied"
    THEN copy.text = S_copied
    ELSE copy.text = S_failed_to_copy /\ copy.colour = C_error

\* a click of content_old.js has just run at an address without an ID
ClickedWithoutId ==
  /\ last'.kind = "oldClick"
  /\ ~IdMatch(href).found

\* C35: in content_old.js, at an address from which no presentation ID can
\* be extracted, a click shows the error 'Unable to detect presentation ID'
\* as an error status message and leaves the clipboard unwritten.
C35_NoIdShownNotCopied ==
  [][ClickedWithoutId =>
       /\ copy'.text = S_unable_to_copy \o S_unable_to_detect
       /\ copy'.colour = "error"
       /\ copy'.clipboard = copy.clipboard
       /\ copy'.writes = copy.writes]_vars

\* an earlier copy is in the clipboard and stays there
C35_Witness ==
  /\ last.kind = "oldClick"
  /\ ~IdMatch(href).found
  /\ copy.text = S_unable_to_copy \o S_unable_to_detect
  /\ copy.latest.result = "failed"
  /\ copy.clipboard # Undefined

\* .../export?format=<format>&slide=<slide> for the address
ExportUrl(format) ==
  S_docs \o <<"/", "p", "r", "e", "s", "e", "n", "t", "a", "t", "i", "o", "n", "/", "d", "/">>
    \o IdMatch(href).group
    \o <<"/", "e", "x", "p", "o", "r", "t", "?", "f", "o", "r", "m", "a", "t", "=">> \o format
    \o <<"&", "s", "l", "i", "d", "e", "=">> \o GetCurrentSlideId(href, host.activeSlide)

\* the URL of a viewing mode for the address
ModeUrl(mode) ==
  S_docs \o <<"/", "p", "r", "e", "s", "e", "n", "t", "a", "t", "i", "o", "n", "/", "d", "/">>
    \o IdMatch(href).group
    \o (IF mode = "DEMO" THEN <<"/", "e", "d", "i", "t", "?", "r", "m", "=", "d", "e", "m", "o">>
        ELSE IF mode = "PRESENT" THEN <<"/", "p", "r", "e", "s", "e", "n", "t">>
        ELSE IF mode = "MOBILE" THEN <<"/", "m", "o", "b", "i", "l", "e", "p", "r", "e", "s", "e", "n", "t">>
        ELSE <<"/", "e", "d", "i", "t">>)
    \o <<"#", "s", "l", "i", "d", "e", "=", "i", "d", ".">> \o GetCurrentSlideId(href, host.activeSlide)

\* what a click on an option has done
OptionStep(option) ==
  IF option[2] # NoExport
  THEN /\ copy'.tab = ExportUrl(option[2])
       /\ copy'.clipboard = copy.clipboard
       /\ copy'.writes = copy.writes
  ELSE /\ copy'.writes = Append(copy.writes, [url |-> ModeUrl(option[1]), option |-> option])
       /\ copy'.tab = copy.tab

\* the clipboard write of an option that has succeeded has written its URL
OptionWriteStep ==
  (last'.kind = "optionWritten" /\ copy'.latest.result = "copied") =>
    /\ copy'.clipboard = Head(copy.writes).url
    /\ copy'.tab = copy.tab

\* C34: a click on an option with an exportFormat opens the export URL
\* .../export?format=<format>&slide=<slide> in a new tab and writes nothing
\* to the clipboard; a click on an option without one writes the URL of its
\* mode to the clipboard and opens no tab.
C34_ExportOpensCopyWrites ==
  [][/\ last'.kind = "optionClick" => OptionStep(last'.id)
     /\ OptionWriteStep]_vars

\* C34, amended: the same at an address that has a presentation ID.
C34_WithPresentationId ==
  [][/\ (last'.kind = "optionClick" /\ IdMatch(href).found) => OptionStep(last'.id)
     /\ OptionWriteStep]_vars

\* an export has opened its tab after a copy has been written
C34_Witness ==
  /\ last.kind = "optionClick"
  /\ IdMatch(href).found
  /\ copy.latest.result = "opened"
  /\ copy.tab = ExportUrl(<<"p", "d", "f">>)
  /\ copy.clipboard = ModeUrl("DEMO")

\* buildSlideUrl with an exportFormat returns the export URL whatever the
\* mode
C34_ExportWhateverMode ==
  (built.fn = "modes" /\ built.exportFormat # NoExport /\ built.idMatch.found) =>
    built.url = S_docs \o S_presentation_d \o built.idMatch.group \o S_export
                  \o built.exportFormat \o S_amp_slide \o built.slide

============================================================================
